---- MODULE Spec2Model ----
(***************************************************************************)
(* Lobby / Matchmaker of the game store (src/server/lobby_server.py),      *)
(* together with the part of the Catalog (Game and Version records) that   *)
(* the Lobby reads and the Developer Gateway writes.                       *)
(*                                                                         *)
(* One worker thread serves each connection.  A handler that releases the  *)
(* Lobby mutex in the middle (login, create_room) or that keeps it over a  *)
(* Catalog round trip (start_game) is split at that point; pc[c] is the    *)
(* position of connection c's thread.                                      *)
(***************************************************************************)
EXTENDS Integers, Sequences, FiniteSets, TLC

\* ------------------------------------------------------------------ bounds
NConn == 3          \* connection slots served at the same time
NUsers == 3         \* registered player accounts
NRooms == 3         \* distinct room ids that uuid4()[:8] hands out
MaxVersion == 2     \* version strings a manifest may carry: 1..MaxVersion
MaxPlayers == 2     \* max_players a manifest may carry: 0..MaxPlayers
NumPorts == 2       \* size of the game port range (100 in the program)
MaxLeak == 1        \* the count of leaked log handles saturates here
NDevConn == 2       \* Developer Gateway connections served at the same time
NDevs == 2          \* registered developer accounts
NNames == 1         \* game names that developers ask for
NPayloads == 2      \* distinguishable package contents of one version
MaxVersionRecs == 3 \* Version records the Catalog is filled up to
NRegs == 2          \* register requests served at the same time
NByte == 2          \* values of a byte of a package file
MaxFileLen == 3     \* bytes of a package file, at most
ChunkSize == 2      \* chunk_size of send_file and receive_file (8192)
NWorkers == 2       \* worker threads of the Catalog
NLockDocs == 2      \* _ids that a collection gives out, at most
MaxDocs == 3        \* documents of a Catalog collection, at most
NVals == 2          \* values of the field that the queries match on

\* ------------------------------------------------------- program constants
PortLo == 5000      \* first game port, and the value the cursor wraps to

Conns == 1..NConn
Users == 1..NUsers
RoomIds == 1..NRooms
Versions == 1..MaxVersion
PortEnd == PortLo + NumPorts          \* exclusive end of range(cursor, 5100)
Ports == PortLo..(PortEnd - 1)
None == 0                             \* Python's None for ids, ports, versions
DevConns == 1..NDevConn
Devs == 1..NDevs
GameNames == 1..NNames
Payloads == 1..NPayloads
Regs == 1..NRegs
RegNames == 1..(NUsers + 1)           \* usernames that register requests carry

VARIABLES
    sessions,        \* the keys of LobbyServer.sessions; the entry of user_id
                     \* u holds the username of u's User record
    rooms,           \* LobbyServer.rooms, in dict (insertion) order
    next_game_port,  \* LobbyServer.next_game_port, the allocation cursor
    lock,            \* LobbyServer.lock: None, or the connection holding it
    pc,              \* position of each connection's worker thread
    session,         \* the per-connection session dict of _handle_client
    local,           \* handler locals kept across a split: user / game
    leaked_logs,     \* log handles opened, never closed, no longer referenced
    orphans,         \* game server processes running, no room referring to them
    last,            \* the response just sent, in the specifications that
                     \* observe the responses
    game,            \* the Catalog's Game record
    versions,        \* the Catalog's Version records of that game (by version)
    gw_pending,      \* the Gateway's update_game between its two Catalog writes
    db_user,         \* the Catalog's User collection, in dict (insertion) order
    db_game,         \* the Catalog's Game collection; _id is the position
    db_version,      \* the Catalog's Version collection
    files,           \* the directories under upload_dir and their content
    dpc,             \* position of each Developer Gateway worker thread
    dsession,        \* the per-connection session dict of the Gateway
    dlocal,          \* locals of upload_game / update_game / remove_game
    rpc,             \* position of each thread serving a register request
    rlocal,          \* username and account_type of that request
    t_pc,            \* position of one upload_game then download_game
    t_pkg,           \* the developer's game_dir: relative path -> bytes
    t_env,           \* what sock.recv returns at most; a stale final_dir
    t_wire,          \* what the developer client has sent, not yet received
    t_todo,          \* file frames that _handle_upload_game still expects
    t_temp,          \* upload_dir/temp_<id>
    t_final,         \* upload_dir/<name>_<version>
    t_down,          \* what _handle_download_game has sent to the player
    docs,            \* DatabaseServer.collections[c] of one collection c
    disk,            \* the file data_dir/<c>.json
    db_reply,        \* the response of the last insert, update or delete
    hc_server,       \* the server whose _handle_client serves one connection
    hc_pc,           \* position of that _handle_client
    hc_action,       \* the handler that is waiting for the file_count message
    hc_read,         \* requests read from the connection by the loop
    hc_sent,         \* messages written to the connection, oldest first
    collections,     \* DatabaseServer.collections: per collection, per _id
    locks,           \* DatabaseServer.locks: per collection None or the holder
    w_pc,            \* position of each Catalog worker thread
    w_req,           \* the request that the thread is serving
    w_i,             \* the document that its scan looks at next
    w_out,           \* results / to_delete / the documents it has updated
    w_reply,         \* the response as it was serialized for the socket
    dl_pc,           \* position of one connection in download_game
    dl_files,        \* len(files) of the download that is being served
    dl_announced,    \* the {file_count} message has been sent
    dl_infos,        \* {path, size} messages sent since then
    dl_frames,       \* file frames sent whole since then
    dl_closed,       \* protocol.closed
    dl_broken,       \* the socket has failed a sendall
    dl_served        \* download_game requests read so far

catalogVars == <<db_game, db_version, files, dpc, dsession, dlocal>>

registerVars == <<db_user, rpc, rlocal>>

transferVars == <<t_pc, t_pkg, t_env, t_wire, t_todo, t_temp, t_final, t_down>>

persistVars == <<docs, disk, db_reply>>

clientVars == <<hc_server, hc_pc, hc_action, hc_read, hc_sent>>

lockVars == <<collections, locks, w_pc, w_req, w_i, w_out, w_reply>>

downloadVars == <<dl_pc, dl_files, dl_announced, dl_infos, dl_frames,
                  dl_closed, dl_broken, dl_served>>

vars == <<sessions, rooms, next_game_port, lock, pc, session, local,
          leaked_logs, orphans, last, game, versions, gw_pending, catalogVars,
          registerVars, transferVars, persistVars, clientVars, lockVars, downloadVars>>

lobbyVars == <<sessions, rooms, next_game_port, lock, pc, session, local,
               leaked_logs, orphans>>

\* ----------------------------------------------------------------- helpers
\* user['username'] of the User record with _id u (usernames are unique per
\* account type, so the record is determined by u).
Username(u) == <<"name", u>>

Min(a, b) == IF a < b THEN a ELSE b

\* list.remove(x): drops the first occurrence of x.
RECURSIVE ListRemove(_, _)
ListRemove(s, x) ==
    IF s = <<>> THEN <<>>
    ELSE IF Head(s) = x THEN Tail(s)
    ELSE <<Head(s)>> \o ListRemove(Tail(s), x)

\* x in list
InList(x, s) == \E i \in 1..Len(s) : s[i] = x

RECURSIVE SeqFilterOut(_, _)
SeqFilterOut(s, drop) ==
    IF s = <<>> THEN <<>>
    ELSE IF Head(s).room_id \in drop THEN SeqFilterOut(Tail(s), drop)
    ELSE <<Head(s)>> \o SeqFilterOut(Tail(s), drop)

RoomIdsInUse == {rooms[i].room_id : i \in 1..Len(rooms)}

\* for r in self.rooms.values(): if user_id in r['players']: room = r; break
\* The index of the first room holding u, 0 when there is none.
FindRoom(rs, u) ==
    IF \E i \in 1..Len(rs) : InList(u, rs[i].players)
    THEN CHOOSE i \in 1..Len(rs) :
            /\ InList(u, rs[i].players)
            /\ \A j \in 1..(i - 1) : ~InList(u, rs[j].players)
    ELSE 0

\* A response dict: the keys that the properties read.  is_host and
\* game_started are "absent" when the dict has no such key; error is "" in a
\* success response, and "raised ..." stands for a handler that raised and
\* sent no response.
Reply(success, error) ==
    [success |-> success, error |-> error, is_host |-> "absent",
     game_started |-> "absent", version |-> None, port |-> None,
     spawned |-> <<>>]

BoolStr(b) == IF b THEN "true" ELSE "false"

NoLocal == [user |-> None, version |-> None, max_players |-> None]

\* No response has just been sent.
NoLast == [conn |-> None, action |-> "none", reply |-> Reply(FALSE, "")]

\* A directory that does not exist, and one just made by os.makedirs.
NoDir == [exists |-> FALSE, version |-> None, payload |-> None]

\* A directory given file by file: no file, and no such directory.
NoTree == [p \in {} |-> <<>>]

NoTreeDir == [exists |-> FALSE, tree |-> NoTree]

TreeDir(tree) == [exists |-> TRUE, tree |-> tree]

\* Nothing sent.
NoWire == [file_count |-> 0, items |-> <<>>]

\* The file of a collection: absent, or last written to the end (whole) or
\* not (the write raised), with the documents that reached it.
NoFile == [state |-> "absent", text |-> <<>>]

\* The Catalog's collections under concurrent requests: a document is
\* "unused" (its _id not yet given out), "live" or "deleted"; the dict keeps
\* insertion order, which is the order of the ids.
Workers == 1..NWorkers
Colls == {"Game", "Version"}
LockDocIds == 1..NLockDocs
NoDoc == [state |-> "unused", val |-> 0]
NoRequest == [action |-> "none", coll |-> "Game", query |-> 0, update |-> 0]
NoResponse == [action |-> "none", vals |-> <<>>, torn |-> FALSE]

NoDbReply == [action |-> "none", success |-> FALSE, count |-> 0]

EmptyDir == [exists |-> TRUE, version |-> None, payload |-> None]

\* The directory names under upload_dir: <name>_<version> and temp_<id>.
FinalDir(name, version) == <<"final", name, version>>

TempDir(d) == <<"temp", d, None>>

DirNames == {FinalDir(n, v) : n \in GameNames, v \in Versions}
               \cup {TempDir(d) : d \in DevConns}

NoDevLocal == [name |-> None, version |-> None, payload |-> None,
               game_id |-> None]

NoRegLocal == [username |-> None, account_type |-> "none"]

\* The User records the database server loads at start: the player accounts
\* and the developer accounts.
LoadedUsers ==
    [i \in 1..(NUsers + NDevs) |->
        IF i <= NUsers THEN [username |-> i, account_type |-> "player"]
        ELSE [username |-> i - NUsers, account_type |-> "developer"]]

\* ---------------------------------------------------------------- initial
\* The Catalog with empty collections and its worker threads idle.
InitCollections ==
    /\ collections = [coll \in Colls |-> [id \in LockDocIds |-> NoDoc]]
    /\ locks = [coll \in Colls |-> None]
    /\ w_pc = [w \in Workers |-> "idle"]
    /\ w_req = [w \in Workers |-> NoRequest]
    /\ w_i = [w \in Workers |-> 1]
    /\ w_out = [w \in Workers |-> <<>>]
    /\ w_reply = [w \in Workers |-> NoResponse]

\* A connection of the Lobby that waits for its next request.
InitNoDownload ==
    /\ dl_pc = "reading"
    /\ dl_files = 0
    /\ dl_announced = FALSE
    /\ dl_infos = 0
    /\ dl_frames = 0
    /\ dl_closed = FALSE
    /\ dl_broken = FALSE
    /\ dl_served = 0

InitServers ==
    /\ InitCollections
    /\ InitNoDownload
    /\ sessions = {}
    /\ rooms = <<>>
    /\ next_game_port = PortLo
    /\ lock = None
    /\ pc = [c \in Conns |-> "idle"]
    /\ session = [c \in Conns |-> [logged_in |-> FALSE, user_id |-> None]]
    /\ local = [c \in Conns |-> NoLocal]
    /\ leaked_logs = 0
    /\ orphans = 0
    /\ last = NoLast
    /\ versions = {1}
    /\ gw_pending = None
    /\ db_user = LoadedUsers
    /\ db_game = <<>>
    /\ db_version = <<>>
    /\ files = [n \in DirNames |-> NoDir]
    /\ dpc = [d \in DevConns |-> "idle"]
    /\ dsession = [d \in DevConns |-> [logged_in |-> FALSE, user_id |-> None]]
    /\ dlocal = [d \in DevConns |-> NoDevLocal]
    /\ rpc = [r \in Regs |-> "idle"]
    /\ rlocal = [r \in Regs |-> NoRegLocal]

\* No package is under way between a developer and a player.
InitNoTransfer ==
    /\ t_pc = "off"
    /\ t_pkg = NoTree
    /\ t_env = [recv |-> ChunkSize, stale |-> FALSE]
    /\ t_wire = NoWire
    /\ t_todo = 0
    /\ t_temp = NoTreeDir
    /\ t_final = NoTreeDir
    /\ t_down = NoWire

\* _load_data of a data_dir with no file of the collection.
InitEmptyCollection ==
    /\ docs = <<>>
    /\ disk = NoFile
    /\ db_reply = NoDbReply

\* No connection loop is followed message by message.
InitNoClient ==
    /\ hc_server = "none"
    /\ hc_pc = "off"
    /\ hc_action = "none"
    /\ hc_read = 0
    /\ hc_sent = <<>>

Init ==
    /\ InitNoClient
    /\ InitServers
    /\ \E st \in {"active", "removed"}, m \in 0..MaxPlayers :
          game = [status |-> st, latest_version |-> 1, max_players |-> m]
    /\ InitNoTransfer
    /\ InitEmptyCollection

\* ------------------------------------------------- _remove_user_from_all_rooms
\* A removal that takes the player out and leaves host_id as it was.
RemoveUserFromRoom_KeepsHost(room, user_id, sess) ==
    [room EXCEPT !.players = ListRemove(room.players, user_id)]

\* The body of the loop for one room that holds user_id: the room after
\* room['players'].remove(user_id) and the host transfer.  A room left with
\* no player is the one the loop deletes.
RemoveUserFromRoom(room, user_id, sess) ==
    LET players == ListRemove(room.players, user_id) IN
    IF Len(players) = 0
    THEN [room EXCEPT !.players = players]
    ELSE IF user_id = room.host_id
    THEN [room EXCEPT !.players = players,
                      !.host_id = players[1],
                      !.host_name = IF players[1] \in sess
                                    THEN Username(players[1]) ELSE @]
    ELSE [room EXCEPT !.players = players]

\* A loop that deletes no room.
RoomsEmptiedBy_None(rs, user_id) == {}

\* The rooms the loop deletes: those that held only user_id.
RoomsEmptiedBy(rs, user_id) ==
    {rs[i].room_id : i \in {j \in 1..Len(rs) :
        InList(user_id, rs[j].players)
        /\ Len(ListRemove(rs[j].players, user_id)) = 0}}

RemoveUserFromAllRooms(rs, user_id, sess) ==
    SeqFilterOut(
        [i \in 1..Len(rs) |->
            IF InList(user_id, rs[i].players)
            THEN RemoveUserFromRoom(rs[i], user_id, sess)
            ELSE rs[i]],
        RoomsEmptiedBy(rs, user_id))

\* The deleted rooms' processes are terminated, but their log files are not
\* closed: each deleted room that still held a log handle drops it open.
LogsDroppedBy(rs, user_id) ==
    Cardinality({i \in 1..Len(rs) :
        /\ rs[i].room_id \in RoomsEmptiedBy(rs, user_id)
        /\ rs[i].game_log_file})

Leak(n) == Min(leaked_logs + n, MaxLeak)

\* A destruction that leaves the game server running.
Terminate_Skips(process) == process

\* if room.get('game_process'): room['game_process'].terminate()
Terminate(process) == IF process = "running" THEN "exited" ELSE process

\* The processes still running of the rooms that the loop deletes.
OrphansDroppedBy(rs, user_id) ==
    Cardinality({i \in 1..Len(rs) :
        /\ rs[i].room_id \in RoomsEmptiedBy(rs, user_id)
        /\ Terminate(rs[i].game_process) = "running"})

\* The same for _handle_leave_room, which deletes the first room holding
\* user_id when it held nobody else.
OrphansLeftBy(rs, user_id) ==
    LET i == FindRoom(rs, user_id) IN
    IF /\ i # 0
       /\ Len(ListRemove(rs[i].players, user_id)) = 0
       /\ Terminate(rs[i].game_process) = "running"
    THEN 1 ELSE 0

Orphan(n) == Min(orphans + n, MaxLeak)

\* ------------------------------------------------------------------- login
\* The response of _handle_login decided in its first `with self.lock` block;
\* ok says whether the request names an existing player account with its
\* password.  "" means the handler goes on to set the session.
LoginError(u, ok) ==
    IF ~ok THEN "Invalid username or password"
    ELSE IF u \in sessions THEN "Account already logged in"
    ELSE ""

\* _handle_login up to the end of the first `with self.lock` block.
LoginCheck(c, u, ok) ==
    /\ pc[c] = "idle"
    /\ lock = None
    /\ IF LoginError(u, ok) # ""
       THEN UNCHANGED <<pc, local>>
       ELSE /\ pc' = [pc EXCEPT ![c] = "login"]
            /\ local' = [local EXCEPT ![c] = [NoLocal EXCEPT !.user = u]]
    /\ UNCHANGED <<sessions, rooms, next_game_port, lock, session, leaked_logs, orphans,
                   game, versions, gw_pending>>

\* _handle_login from "Set session" on: the session dict of this connection,
\* then the second `with self.lock` block; the response is success.
LoginCommit(c) ==
    /\ pc[c] = "login"
    /\ lock = None
    /\ session' = [session EXCEPT ![c] = [logged_in |-> TRUE,
                                          user_id |-> local[c].user]]
    /\ sessions' = sessions \cup {local[c].user}
    /\ pc' = [pc EXCEPT ![c] = "idle"]
    /\ local' = [local EXCEPT ![c] = NoLocal]
    /\ UNCHANGED <<rooms, next_game_port, lock, leaked_logs, orphans, game, versions,
                   gw_pending>>

\* -------------------------------------------------- logout and disconnect
\* A cleanup that leaves the session entry in place.
CleanupSessions_KeepsEntry(user_id) == sessions

\* _cleanup_session: the session entry goes first, then the rooms.
CleanupSessions(user_id) == sessions \ {user_id}

CleanupRooms(user_id) ==
    RemoveUserFromAllRooms(rooms, user_id, CleanupSessions(user_id))

\* action == 'logout' in _process_request.
Logout(c) ==
    /\ pc[c] = "idle"
    /\ session[c].logged_in
    /\ lock = None
    /\ sessions' = CleanupSessions(session[c].user_id)
    /\ rooms' = CleanupRooms(session[c].user_id)
    /\ leaked_logs' = Leak(LogsDroppedBy(rooms, session[c].user_id))
    /\ orphans' = Orphan(OrphansDroppedBy(rooms, session[c].user_id))
    /\ session' = [session EXCEPT ![c].logged_in = FALSE]
    /\ UNCHANGED <<next_game_port, lock, pc, local, game, versions, gw_pending>>

\* The finally block of _handle_client: the peer closed the connection, or a
\* handler raised (pc = "error").  The slot is then taken by a new connection
\* with a fresh session dict.
Disconnect(c) ==
    /\ pc[c] \in {"idle", "error"}
    /\ IF session[c].logged_in
       THEN /\ lock = None
            /\ sessions' = CleanupSessions(session[c].user_id)
            /\ rooms' = CleanupRooms(session[c].user_id)
            /\ leaked_logs' = Leak(LogsDroppedBy(rooms, session[c].user_id))
            /\ orphans' = Orphan(OrphansDroppedBy(rooms, session[c].user_id))
       ELSE UNCHANGED <<sessions, rooms, leaked_logs, orphans>>
    /\ session' = [session EXCEPT ![c] = [logged_in |-> FALSE, user_id |-> None]]
    /\ pc' = [pc EXCEPT ![c] = "idle"]
    /\ UNCHANGED <<next_game_port, lock, local, game, versions, gw_pending>>

\* ------------------------------------------------------------- create_room
\* The room dict that _handle_create_room inserts.  game_name and game_id are
\* those of the one Game record and are left out.
NewRoom(room_id, user_id, version, max_players) ==
    [room_id |-> room_id, version |-> version, host_id |-> user_id,
     host_name |-> Username(user_id), players |-> <<user_id>>,
     max_players |-> max_players, status |-> "waiting",
     game_process |-> "none", game_port |-> None, game_log_file |-> FALSE]

\* The error of _handle_create_room, "" when it goes on to insert the room.
\* name is "missing" (no game_name in the request), "unknown" (no Game of
\* that name) or "known".
CreateRoomError(name) ==
    IF name = "missing" THEN "Game name required"
    ELSE IF name = "unknown" \/ game.status # "active" THEN "Game not found"
    ELSE ""

\* _handle_create_room up to the Catalog lookup: the first `with self.lock`
\* block, then find_one on Game by (name, active).
CreateRoomBegin(c, name) ==
    /\ pc[c] = "idle"
    /\ session[c].logged_in
    /\ IF name = "missing"
       THEN UNCHANGED <<rooms, leaked_logs, orphans, pc, local>>
       ELSE /\ lock = None
            /\ rooms' = RemoveUserFromAllRooms(rooms, session[c].user_id, sessions)
            /\ leaked_logs' = Leak(LogsDroppedBy(rooms, session[c].user_id))
            /\ orphans' = Orphan(OrphansDroppedBy(rooms, session[c].user_id))
            /\ IF CreateRoomError(name) # ""
               THEN UNCHANGED <<pc, local>>
               ELSE /\ pc' = [pc EXCEPT ![c] = "create"]
                    /\ local' = [local EXCEPT ![c] =
                           [NoLocal EXCEPT !.version = game.latest_version,
                                           !.max_players = game.max_players]]
    /\ UNCHANGED <<sessions, next_game_port, lock, session, game, versions,
                   gw_pending>>

\* str(uuid.uuid4())[:8]: an id no room has.  Ids are only compared for
\* equality, so the least unused one stands for any of them.
FreshRoomId == CHOOSE r \in RoomIds \ RoomIdsInUse :
                  \A q \in RoomIds \ RoomIdsInUse : r <= q

\* _handle_create_room from uuid4() on: the second `with self.lock` block;
\* the response is success with is_host true.
CreateRoomInsert(c) ==
    /\ pc[c] = "create"
    /\ lock = None
    /\ RoomIds \ RoomIdsInUse # {}
    /\ rooms' = Append(rooms, NewRoom(FreshRoomId, session[c].user_id,
                                      local[c].version, local[c].max_players))
    /\ pc' = [pc EXCEPT ![c] = "idle"]
    /\ local' = [local EXCEPT ![c] = NoLocal]
    /\ UNCHANGED <<sessions, next_game_port, lock, session, leaked_logs, orphans, game,
                   versions, gw_pending>>

\* --------------------------------------------------------------- join_room
RoomIndex(rs, room_id) ==
    IF \E i \in 1..Len(rs) : rs[i].room_id = room_id
    THEN CHOOSE i \in 1..Len(rs) : rs[i].room_id = room_id
    ELSE 0

\* The capacity check written with > in place of >=.
JoinError_OffByOne(room, user_id) ==
    IF room.status # "waiting" THEN "Room is not accepting players"
    ELSE IF Len(room.players) > room.max_players THEN "Room is full"
    ELSE IF InList(user_id, room.players) THEN "Already in room"
    ELSE ""

\* The checks of _handle_join_room on the room found, in the code's order:
\* the error string, or "" when the caller is appended.
JoinError(room, user_id) ==
    IF room.status # "waiting" THEN "Room is not accepting players"
    ELSE IF Len(room.players) >= room.max_players THEN "Room is full"
    ELSE IF InList(user_id, room.players) THEN "Already in room"
    ELSE ""

\* The response of _handle_join_room to connection c; room_id = None is a
\* request without room_id.
JoinRoomReply(c, room_id) ==
    LET rs == RemoveUserFromAllRooms(rooms, session[c].user_id, sessions)
        i == RoomIndex(rs, room_id)
    IN  IF room_id = None THEN Reply(FALSE, "Room ID required")
        ELSE IF i = 0 THEN Reply(FALSE, "Room not found")
        ELSE IF JoinError(rs[i], session[c].user_id) # ""
        THEN Reply(FALSE, JoinError(rs[i], session[c].user_id))
        ELSE [Reply(TRUE, "") EXCEPT !.is_host = "false"]

\* _handle_join_room
JoinRoom(c, room_id) ==
    /\ pc[c] = "idle"
    /\ session[c].logged_in
    /\ IF room_id = None
       THEN UNCHANGED <<rooms, leaked_logs, orphans>>
       ELSE /\ lock = None
            /\ leaked_logs' = Leak(LogsDroppedBy(rooms, session[c].user_id))
            /\ orphans' = Orphan(OrphansDroppedBy(rooms, session[c].user_id))
            /\ LET rs == RemoveUserFromAllRooms(rooms, session[c].user_id, sessions)
                   i == RoomIndex(rs, room_id)
               IN  IF JoinRoomReply(c, room_id).success
                   THEN rooms' = [rs EXCEPT ![i].players =
                                     Append(@, session[c].user_id)]
                   ELSE rooms' = rs
    /\ UNCHANGED <<sessions, next_game_port, lock, pc, session, local, game,
                   versions, gw_pending>>

\* ------------------------------------------------------ game-ended resets
\* process_ended of the handlers: poll() is not None, or no process reference.
ProcessEnded(room) == room.game_process # "running"

\* A reset that forgets to drop the process reference.
ResetToWaiting_KeepsProcess(room) ==
    [room EXCEPT !.status = "waiting", !.game_port = None,
                 !.game_log_file = FALSE]

\* Close the log if open, then status waiting and the three fields None.
ResetToWaiting(room) ==
    [room EXCEPT !.status = "waiting", !.game_process = "none",
                 !.game_port = None, !.game_log_file = FALSE]

\* -------------------------------------------------------------- leave_room
\* The host branch of _handle_leave_room before the host_name lookup:
\* host_id is already the first remaining player.
LeaveNewHost(room, players) ==
    [room EXCEPT !.players = players, !.host_id = players[1]]

\* The room after the host branch when the new host has a session entry.
LeaveHostBranch(room, players) ==
    LET r == [LeaveNewHost(room, players) EXCEPT
                 !.host_name = Username(players[1])]
    IN  IF r.status = "in_game" /\ ProcessEnded(r) THEN ResetToWaiting(r) ELSE r

\* The response of _handle_leave_room.  self.sessions[players[0]] raises
\* KeyError when the new host has no session entry.
LeaveRoomReply(c) ==
    LET user_id == session[c].user_id
        i == FindRoom(rooms, user_id)
    IN  IF i = 0 THEN Reply(FALSE, "Not in any room")
        ELSE LET players == ListRemove(rooms[i].players, user_id) IN
             IF /\ Len(players) > 0
                /\ user_id = rooms[i].host_id
                /\ players[1] \notin sessions
             THEN Reply(FALSE, "raised KeyError")
             ELSE Reply(TRUE, "")

\* _handle_leave_room.  The room left empty is deleted with its process
\* terminated and its log closed.  When the handler raises, the mutex is
\* released and the worker goes to its finally block.
LeaveRoom(c) ==
    /\ pc[c] = "idle"
    /\ session[c].logged_in
    /\ lock = None
    /\ LET user_id == session[c].user_id
           i == FindRoom(rooms, user_id)
       IN  IF i = 0
           THEN UNCHANGED <<rooms, pc>>
           ELSE LET players == ListRemove(rooms[i].players, user_id) IN
                IF Len(players) = 0
                THEN /\ rooms' = SeqFilterOut(rooms, {rooms[i].room_id})
                     /\ UNCHANGED pc
                ELSE IF user_id = rooms[i].host_id
                THEN IF LeaveRoomReply(c).error = "raised KeyError"
                     THEN /\ rooms' = [rooms EXCEPT ![i] =
                                          LeaveNewHost(rooms[i], players)]
                          /\ pc' = [pc EXCEPT ![c] = "error"]
                     ELSE /\ rooms' = [rooms EXCEPT ![i] =
                                          LeaveHostBranch(rooms[i], players)]
                          /\ UNCHANGED pc
                ELSE /\ rooms' = [rooms EXCEPT ![i].players = players]
                     /\ UNCHANGED pc
    /\ orphans' = Orphan(OrphansLeftBy(rooms, session[c].user_id))
    /\ UNCHANGED <<sessions, next_game_port, lock, session, local, leaked_logs,
                   game, versions, gw_pending>>

\* -------------------------------------------------------------- start_game
\* The in_game check at the head of _handle_start_game: the room after it,
\* reset when the game process has ended (the retry loop polls for up to 2 s;
\* a process that exits in that time has exited when the loop sees it).
StartResetIfEnded(room) ==
    IF room.status = "in_game" /\ ProcessEnded(room)
    THEN ResetToWaiting(room) ELSE room

\* A start that keeps the version recorded when the room was created.
FloatVersion_KeepsCreation(room, g) == room

\* "Re-fetch latest version (float to latest)": room['version'] after the
\* Game record g was fetched.
FloatVersion(room, g) == [room EXCEPT !.version = g.latest_version]

\* A start_game that any member of the room may send.
StartGameError_AnyMember(c) ==
    LET i == FindRoom(rooms, session[c].user_id)
    IN  IF i = 0 THEN "Not in any room"
        ELSE IF rooms[i].status = "in_game" /\ ~ProcessEnded(rooms[i])
        THEN "Game already started"
        ELSE IF game.status # "active" THEN "Game not found"
        ELSE ""

\* The error of _handle_start_game up to the Game lookup, "" when it goes on.
StartGameError(c) ==
    LET user_id == session[c].user_id
        i == FindRoom(rooms, user_id)
    IN  IF i = 0 THEN "Not in any room"
        ELSE IF rooms[i].host_id # user_id THEN "Only host can start game"
        ELSE IF rooms[i].status = "in_game" /\ ~ProcessEnded(rooms[i])
        THEN "Game already started"
        ELSE IF game.status # "active" THEN "Game not found"
        ELSE ""

\* _handle_start_game up to room['version'] = latest_version.  The mutex is
\* taken here and is still held at the Catalog lookups that follow.
StartGameBegin(c) ==
    /\ pc[c] = "idle"
    /\ session[c].logged_in
    /\ lock = None
    /\ LET i == FindRoom(rooms, session[c].user_id) IN
       IF StartGameError(c) = ""
       THEN /\ rooms' = [rooms EXCEPT ![i] =
                            FloatVersion(StartResetIfEnded(@), game)]
            /\ lock' = c
            /\ pc' = [pc EXCEPT ![c] = "start"]
       ELSE IF StartGameError(c) = "Game not found"
       THEN /\ rooms' = [rooms EXCEPT ![i] = StartResetIfEnded(@)]
            /\ UNCHANGED <<lock, pc>>
       ELSE UNCHANGED <<rooms, lock, pc>>
    /\ UNCHANGED <<sessions, next_game_port, session, local, leaked_logs, orphans, game,
                   versions, gw_pending>>

\* file_path of the Version record of version v: the directory <name>_<v>.
FilePath(v) == <<"uploaded_games", v>>

\* A port can be bound unless a live game server holds it.
PortInUse(rs, p) ==
    \E i \in 1..Len(rs) : rs[i].game_process = "running" /\ rs[i].game_port = p

\* _find_available_port: the first port of range(next_game_port, 5100) that
\* can be bound, None when the loop runs out.
FindAvailablePort(rs, cursor) ==
    IF \E p \in cursor..(PortEnd - 1) : ~PortInUse(rs, p)
    THEN CHOOSE p \in cursor..(PortEnd - 1) :
            /\ ~PortInUse(rs, p)
            /\ \A q \in cursor..(p - 1) : PortInUse(rs, q)
    ELSE None

\* The cursor stays on the port just returned.
CursorAfter_KeepsPort(game_port) ==
    IF game_port = None THEN PortLo ELSE game_port

\* next_game_port after _find_available_port returned game_port (None: raised).
CursorAfter(game_port) == IF game_port = None THEN PortLo ELSE game_port + 1

\* The room after the early-crash branch.
SpawnCrashed(room) ==
    [room EXCEPT !.status = "waiting", !.game_process = "none",
                 !.game_port = None]

\* The room after "Game server started successfully".
SpawnAlive(room, game_port) ==
    [room EXCEPT !.game_process = "running", !.game_port = game_port,
                 !.game_log_file = TRUE, !.status = "in_game"]

\* The crash branch without its log_file.close().
SpawnLeak_NoClose(outcome) ==
    IF outcome \in {"spawn_failed", "crashed"} THEN 1 ELSE 0

\* Log handles that the spawn leaves open without a reference: Popen raising
\* skips log_file.close(); the crash branch closes it; a live server's handle
\* is kept in the room.
SpawnLeak(outcome) == IF outcome = "spawn_failed" THEN 1 ELSE 0

\* The response of _handle_start_game from the Version lookup on.  outcome is
\* what the environment does to this spawn: "manifest_error" (open or
\* json.load of game_info.json raises), "spawn_failed" (Popen raises),
\* "crashed" (the process has exited at the poll after 300 ms), "alive".
StartGameReply(c, outcome) ==
    LET room == rooms[FindRoom(rooms, session[c].user_id)]
        game_port == FindAvailablePort(rooms, next_game_port)
    IN  IF room.version \notin versions
        THEN Reply(FALSE, "Game version not found")
        ELSE IF outcome = "manifest_error" THEN Reply(FALSE, "raised OSError")
        ELSE IF game_port = None THEN Reply(FALSE, "No available ports")
        ELSE IF outcome = "spawn_failed" THEN Reply(FALSE, "Failed to start server")
        ELSE IF outcome = "crashed"
        THEN [Reply(FALSE, "Game server crashed on startup")
                 EXCEPT !.spawned = FilePath(room.version)]
        ELSE [Reply(TRUE, "") EXCEPT !.port = game_port,
                                     !.version = room.version,
                                     !.spawned = FilePath(room.version)]

\* A mutex that stays with the thread whose handler raised.
LockExit_HeldOnRaise(c, err) == IF err = "raised OSError" THEN c ELSE None

\* The end of `with self.lock:` in the thread of connection c, left by a
\* return or by an exception: the mutex is free.
LockExit(c, err) == None

\* _handle_start_game from the Version lookup on, the mutex still held.
StartGameSpawn(c, outcome) ==
    /\ pc[c] = "start"
    /\ lock = c
    /\ LET i == FindRoom(rooms, session[c].user_id)
           game_port == FindAvailablePort(rooms, next_game_port)
           err == StartGameReply(c, outcome).error
       IN  IF err = "Game version not found"
           THEN /\ pc' = [pc EXCEPT ![c] = "idle"]
                /\ UNCHANGED <<rooms, next_game_port, leaked_logs, orphans>>
           ELSE IF err = "raised OSError"
           THEN /\ pc' = [pc EXCEPT ![c] = "error"]
                /\ UNCHANGED <<rooms, next_game_port, leaked_logs, orphans>>
           ELSE /\ pc' = [pc EXCEPT ![c] = "idle"]
                /\ next_game_port' = CursorAfter(game_port)
                /\ IF game_port = None
                   THEN UNCHANGED <<rooms, leaked_logs, orphans>>
                   ELSE /\ leaked_logs' = Leak(SpawnLeak(outcome))
                        /\ orphans' = orphans
                        /\ rooms' = [rooms EXCEPT ![i] =
                              IF outcome = "crashed" THEN SpawnCrashed(@)
                              ELSE IF outcome = "alive" THEN SpawnAlive(@, game_port)
                              ELSE @]
    /\ lock' = LockExit(c, StartGameReply(c, outcome).error)
    /\ UNCHANGED <<sessions, session, local, game, versions, gw_pending>>

\* The response that carries the outcome of _find_available_port.
AllocateReply(game_port) ==
    IF game_port = None THEN Reply(FALSE, "No available ports")
    ELSE [Reply(TRUE, "") EXCEPT !.port = game_port]

\* One call of _find_available_port on its own.  bound: the caller's game
\* server then binds the port and keeps it until its process exits (a room
\* with a live process on it); else the port is handed out and never bound.
PortsAllocate(bound) ==
    /\ Len(rooms) < NumPorts + 2
    /\ lock = None
    /\ LET game_port == FindAvailablePort(rooms, next_game_port) IN
         /\ next_game_port' = CursorAfter(game_port)
         /\ rooms' = IF game_port = None \/ ~bound THEN rooms
                     ELSE Append(rooms,
                            SpawnAlive(NewRoom(Len(rooms) + 1, 1, 1, MaxPlayers),
                                       game_port))
         /\ last' = [conn |-> None, action |-> "allocate",
                     reply |-> AllocateReply(game_port)]
    /\ UNCHANGED <<sessions, lock, pc, session, local, leaked_logs, orphans, game,
                   versions, gw_pending, catalogVars, registerVars,
                   transferVars, persistVars, clientVars, lockVars, downloadVars>>

\* ------------------------------------------------------- check_game_status
\* is_host = (session['user_id'] == room['host_id'])
IsHost(room, user_id) == user_id = room.host_id

\* The response of _handle_check_game_status to connection c.
CheckGameStatusReply(c) ==
    LET user_id == session[c].user_id
        i == FindRoom(rooms, user_id)
        room == rooms[i]
    IN  IF i = 0 THEN [Reply(TRUE, "") EXCEPT !.game_started = "false"]
        ELSE IF room.status = "in_game"
        THEN IF ProcessEnded(room)
             THEN [Reply(TRUE, "") EXCEPT !.game_started = "false"]
             ELSE [Reply(TRUE, "")
                      EXCEPT !.game_started = "true", !.port = room.game_port,
                             !.version = room.version,
                             !.is_host = BoolStr(IsHost(room, user_id))]
        ELSE [Reply(TRUE, "")
                 EXCEPT !.game_started = "false",
                        !.is_host = BoolStr(IsHost(room, user_id))]

\* _handle_check_game_status
CheckGameStatus(c) ==
    /\ pc[c] = "idle"
    /\ session[c].logged_in
    /\ lock = None
    /\ LET i == FindRoom(rooms, session[c].user_id) IN
       IF i = 0
       THEN UNCHANGED rooms
       ELSE rooms' = [rooms EXCEPT ![i] = StartResetIfEnded(@)]
    /\ UNCHANGED <<sessions, next_game_port, lock, pc, session, local,
                   leaked_logs, orphans, game, versions, gw_pending>>

\* ---------------------------------------------------------------- end_game
\* An end_game that starts over a room that is waiting.
EndGameRoom_Toggles(room) ==
    IF room.status = "in_game" THEN ResetToWaiting(room)
    ELSE [room EXCEPT !.status = "in_game"]

\* The room after _handle_end_game: a process still running is terminated,
\* the log closed, the room reset.
EndGameRoom(room) ==
    IF room.status = "in_game" THEN ResetToWaiting(room) ELSE room

\* _handle_end_game: any member may end the game; the response is success.
EndGame(c) ==
    /\ pc[c] = "idle"
    /\ session[c].logged_in
    /\ lock = None
    /\ LET i == FindRoom(rooms, session[c].user_id) IN
       IF i = 0
       THEN UNCHANGED rooms
       ELSE rooms' = [rooms EXCEPT ![i] = EndGameRoom(@)]
    /\ UNCHANGED <<sessions, next_game_port, lock, pc, session, local,
                   leaked_logs, orphans, game, versions, gw_pending>>

\* -------------------------------------------------------------- list_rooms
\* The rooms list of the _handle_list_rooms response.
ListRoomsResponse(rs) ==
    [i \in 1..Len(rs) |->
        [room_id |-> rs[i].room_id, version |-> rs[i].version,
         host |-> rs[i].host_name, players |-> Len(rs[i].players),
         max_players |-> rs[i].max_players, status |-> rs[i].status]]

ListRooms(c) ==
    /\ pc[c] = "idle"
    /\ session[c].logged_in
    /\ lock = None
    /\ UNCHANGED <<lobbyVars, game, versions, gw_pending>>

\* ------------------------------------------------------------- environment
\* A running game server exits (its clients left, or it failed).
GameExit(i) ==
    /\ i \in 1..Len(rooms)
    /\ rooms[i].game_process = "running"
    /\ rooms' = [rooms EXCEPT ![i].game_process = "exited"]
    /\ UNCHANGED <<sessions, next_game_port, lock, pc, session, local,
                   leaked_logs, orphans, game, versions, gw_pending>>

\* --------------------------------------------- Developer Gateway: update_game
\* _handle_update_game by the owner, at its 'update' of the Game record: the
\* manifest's version v and max_players m go into the record.
UpdateGameRecord(v, m) ==
    /\ gw_pending = None
    /\ game' = [game EXCEPT !.latest_version = v, !.max_players = m]
    /\ gw_pending' = v
    /\ UNCHANGED <<lobbyVars, versions>>

\* ... and at its 'insert' of the Version record.
UpdateInsertVersion ==
    /\ gw_pending # None
    /\ versions' = versions \cup {gw_pending}
    /\ gw_pending' = None
    /\ UNCHANGED <<lobbyVars, game>>

\* _handle_remove_game by the owner: status = 'removed'.
RemoveGame ==
    /\ gw_pending = None
    /\ game.status = "active"
    /\ game' = [game EXCEPT !.status = "removed"]
    /\ UNCHANGED <<lobbyVars, versions, gw_pending>>

\* ------------------------------------------------- Catalog: database server
\* _handle_find_one: the position of the first document in dict order that
\* matches the query, 0 for 'Not found'.
FindOne(coll, Match(_)) ==
    IF \E i \in 1..Len(coll) : Match(coll[i])
    THEN CHOOSE i \in 1..Len(coll) :
            /\ Match(coll[i])
            /\ \A j \in 1..(i - 1) : ~Match(coll[j])
    ELSE 0

\* _handle_find: the positions of the matching documents.
Find(coll, Match(_)) == {i \in 1..Len(coll) : Match(coll[i])}

\* _handle_update: doc.update(update) on every matching document.
UpdateWhere(coll, Match(_), Upd(_)) ==
    [i \in 1..Len(coll) |-> IF Match(coll[i]) THEN Upd(coll[i]) ELSE coll[i]]

\* ------------------------------------------- Developer Gateway: connections
\* Conversations that have passed their check and may still insert a record.
InFlight == Cardinality({d \in DevConns : dpc[d] # "idle"})

\* DeveloperServer._handle_login of account u with the right password.
DevLogin(d, u) ==
    /\ dpc[d] = "idle"
    /\ ~dsession[d].logged_in
    /\ FindOne(db_user, LAMBDA r : r.username = u /\ r.account_type = "developer") # 0
    /\ dsession' = [dsession EXCEPT ![d] = [logged_in |-> TRUE, user_id |-> u]]
    /\ UNCHANGED <<db_game, db_version, files, dpc, dlocal>>

\* action == 'logout' of DeveloperServer._process_request
DevLogout_StaysLoggedIn(d) ==
    /\ dpc[d] = "idle"
    /\ dsession[d].logged_in
    /\ UNCHANGED <<db_game, db_version, files, dpc, dlocal, dsession>>

DevLogout(d) ==
    /\ dpc[d] = "idle"
    /\ dsession[d].logged_in
    /\ dsession' = [dsession EXCEPT ![d].logged_in = FALSE]
    /\ UNCHANGED <<db_game, db_version, files, dpc, dlocal>>

\* The connection after its transport is lost: the worker thread ends, the
\* slot is a new connection.
DevDropped(d) ==
    /\ dsession' = [dsession EXCEPT ![d] = [logged_in |-> FALSE, user_id |-> None]]
    /\ dpc' = [dpc EXCEPT ![d] = "idle"]
    /\ dlocal' = [dlocal EXCEPT ![d] = NoDevLocal]

\* The conversation of connection d ends with a response.
DevDone(d) ==
    /\ dpc' = [dpc EXCEPT ![d] = "idle"]
    /\ dlocal' = [dlocal EXCEPT ![d] = NoDevLocal]
    /\ UNCHANGED dsession

\* ------------------------------------------------------------- upload_game
\* The error of _handle_upload_game before the ready signal, "" when ready.
UploadGameError(name) ==
    IF FindOne(db_game, LAMBDA g : g.name = name) # 0
    THEN "Game name already exists" ELSE ""

\* _handle_upload_game up to 'Ready to receive files'.
UploadGameCheck(d, name) ==
    /\ dpc[d] = "idle"
    /\ dsession[d].logged_in
    /\ IF UploadGameError(name) # ""
       THEN UNCHANGED <<dpc, dlocal>>
       ELSE /\ dpc' = [dpc EXCEPT ![d] = "up_ready"]
            /\ dlocal' = [dlocal EXCEPT ![d].name = name]
    /\ UNCHANGED <<db_game, db_version, files, dsession>>

\* The file_count message: lost with the connection, 0 ('No files to
\* upload'), or positive, and then temp_<id> is made.
UploadGameStage(d, outcome) ==
    /\ dpc[d] = "up_ready"
    /\ IF outcome = "lost" THEN DevDropped(d) /\ UNCHANGED files
       ELSE IF outcome = "empty" THEN DevDone(d) /\ UNCHANGED files
       ELSE /\ files' = [files EXCEPT ![TempDir(d)] = EmptyDir]
            /\ dpc' = [dpc EXCEPT ![d] = "up_staged"]
            /\ UNCHANGED <<dlocal, dsession>>
    /\ UNCHANGED <<db_game, db_version>>

\* An except branch that leaves temp_dir behind.
PurgeTemp_Keeps(fs, d) == fs

\* The except branch: shutil.rmtree(temp_dir) if it exists.
PurgeTemp(fs, d) == [fs EXCEPT ![TempDir(d)] = NoDir]

\* rmtree(final_dir) if it exists, then move(temp_dir, final_dir): the
\* directory <name>_<version> holds the received package.
Promote(fs, d, name, pkg) ==
    [fs EXCEPT ![FinalDir(name, pkg.version)] =
                   [exists |-> TRUE, version |-> pkg.version,
                    payload |-> pkg.payload],
               ![TempDir(d)] = NoDir]

\* The file transfer, the validation and the move of a conversation whose
\* next position is `moved`.  outcome "lost": a file frame does not arrive.
Transfer(d, pkg, outcome, moved) ==
    IF outcome = "lost"
    THEN /\ files' = PurgeTemp(files, d)
         /\ DevDropped(d)
    ELSE IF ~pkg.valid
    THEN /\ files' = PurgeTemp(files, d)
         /\ DevDone(d)
    ELSE /\ files' = Promote(files, d, dlocal[d].name, pkg)
         /\ dpc' = [dpc EXCEPT ![d] = moved]
         /\ dlocal' = [dlocal EXCEPT ![d].version = pkg.version,
                                     ![d].payload = pkg.payload]
         /\ UNCHANGED dsession

\* _handle_upload_game: the try block up to the move.
UploadGameTransfer(d, pkg, outcome) ==
    /\ dpc[d] = "up_staged"
    /\ Transfer(d, pkg, outcome, "up_moved")
    /\ UNCHANGED <<db_game, db_version>>

\* The Game record that upload_game inserts.
NewGame(name, developer_id, version) ==
    [name |-> name, developer_id |-> developer_id,
     latest_version |-> version, status |-> "active"]

\* 'insert' into Game; ok = FALSE: the Catalog request fails and the handler
\* raises "Failed to save game to database".
UploadGameInsertGame(d, ok) ==
    /\ dpc[d] = "up_moved"
    /\ IF ok
       THEN /\ db_game' = Append(db_game, NewGame(dlocal[d].name,
                                   dsession[d].user_id, dlocal[d].version))
            /\ dpc' = [dpc EXCEPT ![d] = "up_game"]
            /\ dlocal' = [dlocal EXCEPT ![d].game_id = Len(db_game) + 1]
            /\ UNCHANGED <<files, dsession>>
       ELSE /\ files' = PurgeTemp(files, d)
            /\ DevDone(d)
            /\ UNCHANGED db_game
    /\ UNCHANGED db_version

\* The Version record of the package that conversation d has promoted.
NewVersion(d) ==
    [game_id |-> dlocal[d].game_id, version |-> dlocal[d].version,
     file_path |-> FinalDir(dlocal[d].name, dlocal[d].version)]

\* 'insert' into Version and the success response.
UploadGameInsertVersion(d) ==
    /\ dpc[d] = "up_game"
    /\ db_version' = Append(db_version, NewVersion(d))
    /\ DevDone(d)
    /\ UNCHANGED <<db_game, files>>

\* ------------------------------------------------------------- update_game
\* A lookup by name alone, whoever the developer is.
OwnGame_AnyDeveloper(d, name) == FindOne(db_game, LAMBDA g : g.name = name)

\* find_one of Game by {'name', 'developer_id'}: the caller's game of that
\* name, 0 when there is none.
OwnGame(d, name) ==
    FindOne(db_game, LAMBDA g : g.name = name
                                /\ g.developer_id = dsession[d].user_id)

\* The error of update_game and remove_game at the ownership check.
OwnerError(d, name) ==
    IF OwnGame(d, name) = 0 THEN "Game not found or you do not own it" ELSE ""

\* _handle_update_game up to 'Ready to receive files'.
UpdateGameCheck(d, name) ==
    /\ dpc[d] = "idle"
    /\ dsession[d].logged_in
    /\ IF OwnerError(d, name) # ""
       THEN UNCHANGED <<dpc, dlocal>>
       ELSE /\ Len(db_version) + InFlight < MaxVersionRecs
            /\ dpc' = [dpc EXCEPT ![d] = "upd_ready"]
            /\ dlocal' = [dlocal EXCEPT ![d].name = name,
                                        ![d].game_id = OwnGame(d, name)]
    /\ UNCHANGED <<db_game, db_version, files, dsession>>

\* The file_count message, lost or not, and then temp_<id> is made.
UpdateGameStage(d, outcome) ==
    /\ dpc[d] = "upd_ready"
    /\ IF outcome = "lost" THEN DevDropped(d) /\ UNCHANGED files
       ELSE /\ files' = [files EXCEPT ![TempDir(d)] = EmptyDir]
            /\ dpc' = [dpc EXCEPT ![d] = "upd_staged"]
            /\ UNCHANGED <<dlocal, dsession>>
    /\ UNCHANGED <<db_game, db_version>>

\* _handle_update_game: the try block up to the move.
UpdateGameTransfer(d, pkg, outcome) ==
    /\ dpc[d] = "upd_staged"
    /\ Transfer(d, pkg, outcome, "upd_moved")
    /\ UNCHANGED <<db_game, db_version>>

\* 'update' of the Game record by _id; its result is not looked at.
UpdateGameWriteGame(d) ==
    /\ dpc[d] = "upd_moved"
    /\ db_game' = [db_game EXCEPT ![dlocal[d].game_id].latest_version =
                                      dlocal[d].version]
    /\ dpc' = [dpc EXCEPT ![d] = "upd_game"]
    /\ UNCHANGED <<db_version, files, dlocal, dsession>>

\* 'insert' into Version and the success response.
UpdateGameWriteVersion(d) ==
    /\ dpc[d] = "upd_game"
    /\ db_version' = Append(db_version, NewVersion(d))
    /\ DevDone(d)
    /\ UNCHANGED <<db_game, files>>

\* ------------------------------------------------------------- remove_game
\* _handle_remove_game up to the ownership check.
RemoveGameCheck(d, name) ==
    /\ dpc[d] = "idle"
    /\ dsession[d].logged_in
    /\ IF OwnerError(d, name) # ""
       THEN UNCHANGED <<dpc, dlocal>>
       ELSE /\ dpc' = [dpc EXCEPT ![d] = "rm_found"]
            /\ dlocal' = [dlocal EXCEPT ![d].name = name]
    /\ UNCHANGED <<db_game, db_version, files, dsession>>

\* 'update' of Game by {'name', 'developer_id'} to status removed.
RemoveGameMark(d) ==
    /\ dpc[d] = "rm_found"
    /\ db_game' = UpdateWhere(db_game,
                     LAMBDA g : g.name = dlocal[d].name
                                /\ g.developer_id = dsession[d].user_id,
                     LAMBDA g : [g EXCEPT !.status = "removed"])
    /\ DevDone(d)
    /\ UNCHANGED <<db_version, files>>

\* --------------------------------------------------- Lobby reads of Catalog
\* find_one of Game by {'name', 'status': 'active'}.
ActiveGame(name) ==
    FindOne(db_game, LAMBDA g : g.name = name /\ g.status = "active")

\* _handle_list_games: the names of the games of the response.
ListGamesNames ==
    {db_game[i].name : i \in Find(db_game, LAMBDA g : g.status = "active")}

\* The error of _handle_game_info, and of _handle_create_room at its Game
\* lookup, for a request that carries the name.
GameLookupError(name) == IF ActiveGame(name) = 0 THEN "Game not found" ELSE ""

\* The response of _handle_download_game up to the first message: the error,
\* or the version and the directory whose files are sent.
DownloadGameReply(name) ==
    LET g == ActiveGame(name)
        v == FindOne(db_version,
                LAMBDA r : r.game_id = g /\ r.version = db_game[g].latest_version)
    IN  IF g = 0 THEN [Reply(FALSE, "Game not found") EXCEPT !.spawned = NoDir]
        ELSE IF v = 0
        THEN [Reply(FALSE, "Version not found") EXCEPT !.spawned = NoDir]
        ELSE IF ~files[db_version[v].file_path].exists
        THEN [Reply(FALSE, "Game files not found") EXCEPT !.spawned = NoDir]
        ELSE [Reply(TRUE, "") EXCEPT !.version = db_game[g].latest_version,
                                     !.spawned = files[db_version[v].file_path]]

\* ------------------------------------------------- Developer Gateway steps
Packages == [version : Versions, payload : Payloads, valid : BOOLEAN]

\* _process_request of the Gateway for a connection that is not logged in
\* and sends one of the protected actions: 'Not logged in'.
GatewayProtected ==
    {"my_games", "upload_game", "update_game", "remove_game", "logout",
     "unknown"}

DevGate(d) ==
    /\ dpc[d] = "idle"
    /\ ~dsession[d].logged_in
    /\ UNCHANGED catalogVars

\* The same of the Lobby.
LobbyProtected ==
    {"list_games", "game_info", "download_game", "list_rooms", "create_room",
     "join_room", "leave_room", "start_game", "check_game_status", "end_game",
     "submit_review", "logout", "unknown"}

LobbyGate(c) ==
    /\ pc[c] = "idle"
    /\ ~session[c].logged_in
    /\ UNCHANGED <<lobbyVars, game, versions, gw_pending>>

\* The Lobby and the register requests take no step.
LobbyIdle ==
    UNCHANGED <<lobbyVars, last, game, versions, gw_pending, registerVars,
                transferVars, persistVars, clientVars, lockVars, downloadVars>>

\* The requests that the Gateway connections in DS send.
CatalogSteps(DS) ==
    \/ \E d \in DS, u \in Devs : DevLogin(d, u) /\ LobbyIdle
    \/ \E d \in DS : DevLogout(d) /\ LobbyIdle
    \/ \E d \in DS, name \in GameNames : UploadGameCheck(d, name) /\ LobbyIdle
    \/ \E d \in DS, outcome \in {"lost", "empty", "ok"} :
          UploadGameStage(d, outcome) /\ LobbyIdle
    \/ \E d \in DS, pkg \in Packages, outcome \in {"lost", "ok"} :
          UploadGameTransfer(d, pkg, outcome) /\ LobbyIdle
    \/ \E d \in DS, ok \in BOOLEAN : UploadGameInsertGame(d, ok) /\ LobbyIdle
    \/ \E d \in DS : UploadGameInsertVersion(d) /\ LobbyIdle
    \/ \E d \in DS, name \in GameNames : UpdateGameCheck(d, name) /\ LobbyIdle
    \/ \E d \in DS, outcome \in {"lost", "ok"} : UpdateGameStage(d, outcome) /\ LobbyIdle
    \/ \E d \in DS, pkg \in Packages, outcome \in {"lost", "ok"} :
          UpdateGameTransfer(d, pkg, outcome) /\ LobbyIdle
    \/ \E d \in DS : UpdateGameWriteGame(d) /\ LobbyIdle
    \/ \E d \in DS : UpdateGameWriteVersion(d) /\ LobbyIdle
    \/ \E d \in DS, name \in GameNames : RemoveGameCheck(d, name) /\ LobbyIdle
    \/ \E d \in DS : RemoveGameMark(d) /\ LobbyIdle

CatalogNext == CatalogSteps(DevConns)

\* ---------------------------------------------------------------- register
\* The error of _handle_register (of the Lobby for account_type player, of
\* the Gateway for developer) at its find_one, "" when it goes on to insert.
RegisterError(username, account_type) ==
    IF FindOne(db_user, LAMBDA r : r.username = username
                                   /\ r.account_type = account_type) # 0
    THEN "Username already exists" ELSE ""

\* _handle_register up to the find_one of the User collection.
RegisterCheck(r, username, account_type) ==
    /\ rpc[r] = "idle"
    /\ IF RegisterError(username, account_type) # ""
       THEN UNCHANGED <<rpc, rlocal>>
       ELSE /\ rpc' = [rpc EXCEPT ![r] = "insert"]
            /\ rlocal' = [rlocal EXCEPT ![r] = [username |-> username,
                                                account_type |-> account_type]]
    /\ UNCHANGED db_user

\* 'insert' into User and the success response.
RegisterInsert(r) ==
    /\ rpc[r] = "insert"
    /\ db_user' = Append(db_user, rlocal[r])
    /\ rpc' = [rpc EXCEPT ![r] = "idle"]
    /\ rlocal' = [rlocal EXCEPT ![r] = NoRegLocal]

\* The Lobby's rooms and the Gateway's conversations take no step.
ServersIdle ==
    UNCHANGED <<lobbyVars, last, game, versions, gw_pending, catalogVars,
                transferVars, persistVars, clientVars, lockVars, downloadVars>>

RegisterNext ==
    \/ \E r \in Regs, username \in RegNames,
          account_type \in {"player", "developer"} :
          RegisterCheck(r, username, account_type) /\ ServersIdle
    \/ \E r \in Regs : RegisterInsert(r) /\ ServersIdle

\* ------------------------------------------- package transfer, file by file
SizeLen == 8                          \* bytes of the '!Q' file size
ByteBase == 256

Bytes == 0..(NByte - 1)
Contents == UNION {[1..n -> Bytes] : n \in 0..MaxFileLen}
Paths == {"game_info.json", "main.py", "assets/a.bin"}
Trees == UNION {[S -> Contents] : S \in SUBSET Paths}

\* struct.pack('!Q', n): n in k bytes, the most significant first.
RECURSIVE Pack(_, _)
Pack(n, k) ==
    IF k = 0 THEN <<>> ELSE Append(Pack(n \div ByteBase, k - 1), n % ByteBase)

\* struct.unpack('!Q', b)[0]
RECURSIVE Unpack(_)
Unpack(b) ==
    IF b = <<>> THEN 0
    ELSE Unpack(SubSeq(b, 1, Len(b) - 1)) * ByteBase + b[Len(b)]

\* send_file's loop: file_data[i:i+chunk_size] for i in range(0, file_size,
\* chunk_size), one sendall each.
RECURSIVE SendChunks(_, _)
SendChunks(file_data, i) ==
    IF i >= Len(file_data) THEN <<>>
    ELSE SubSeq(file_data, i + 1, Min(i + ChunkSize, Len(file_data)))
            \o SendChunks(file_data, i + ChunkSize)

\* Protocol.send_file: the bytes it puts on the socket.
SendFile(file_data) == Pack(Len(file_data), SizeLen) \o SendChunks(file_data, 0)

\* receive_file's loop.  sock.recv(chunk_size) returns what has arrived, at
\* most chunk_size and at most recv bytes; nothing: the peer has closed.
RECURSIVE ReceiveChunks(_, _, _, _)
ReceiveChunks(stream, file_size, data, recv) ==
    IF Len(data) >= file_size
    THEN [ok |-> TRUE, data |-> data, rest |-> stream]
    ELSE LET chunk_size == Min(ChunkSize, file_size - Len(data))
             n == Min(Min(chunk_size, recv), Len(stream))
         IN  IF n = 0 THEN [ok |-> FALSE, data |-> data, rest |-> stream]
             ELSE ReceiveChunks(SubSeq(stream, n + 1, Len(stream)), file_size,
                                data \o SubSeq(stream, 1, n), recv)

\* Protocol.receive_file: whether it returns True, the bytes it has written
\* to save_path, and the bytes it has left on the socket.
ReceiveFile(stream, recv) ==
    IF Len(stream) < SizeLen
    THEN [ok |-> FALSE, data |-> <<>>, rest |-> <<>>]
    ELSE ReceiveChunks(SubSeq(stream, SizeLen + 1, Len(stream)),
                       Unpack(SubSeq(stream, 1, SizeLen)), <<>>, recv)

\* get_game_files: the relative paths of the files of a directory, in the
\* order that os.walk yields them (any).
GetGameFiles(tree) ==
    {order \in [1..Cardinality(DOMAIN tree) -> DOMAIN tree] :
        \A i, j \in DOMAIN order : order[i] = order[j] => i = j}

\* The file_count message, and per file the path message and the file.
SendPackage(tree, order) ==
    [file_count |-> Len(order),
     items |-> [i \in 1..Len(order) |->
                  [path |-> order[i], size |-> Len(tree[order[i]]),
                   frame |-> SendFile(tree[order[i]])]]]

\* validate_game_package: game_info.json is there and parses (an empty file
\* does not; any other content stands for a config with all its fields whose
\* server and client entry_point are main.py), and main.py is there.
ValidateGamePackage(tree) ==
    /\ "game_info.json" \in DOMAIN tree
    /\ tree["game_info.json"] # <<>>
    /\ "main.py" \in DOMAIN tree

\* What is left where final_dir was is kept next to the files moved in.
MoveTree_Merges(final_dir, tree) ==
    TreeDir([p \in DOMAIN final_dir.tree \cup DOMAIN tree |->
                IF p \in DOMAIN tree THEN tree[p] ELSE final_dir.tree[p]])

\* if os.path.exists(final_dir): shutil.rmtree(final_dir); then
\* shutil.move(temp_dir, final_dir).
MoveTree(final_dir, tree) == TreeDir(tree)

\* developer_client upload: after 'Ready to receive files' the client sends
\* the file count and every file of game_dir.
UploadSend(order) ==
    /\ t_pc = "ready"
    /\ t_wire' = SendPackage(t_pkg, order)
    /\ t_pc' = "sent"
    /\ UNCHANGED <<t_pkg, t_env, t_todo, t_temp, t_final, t_down>>

\* _handle_upload_game: the file count; no file is an error, else temp_<id>
\* is made.
UploadReceiveCount ==
    /\ t_pc = "sent"
    /\ IF t_wire.file_count = 0
       THEN t_pc' = "failed" /\ UNCHANGED <<t_todo, t_temp>>
       ELSE /\ t_pc' = "receiving"
            /\ t_todo' = t_wire.file_count
            /\ t_temp' = TreeDir(NoTree)
    /\ UNCHANGED <<t_pkg, t_env, t_wire, t_final, t_down>>

\* One turn of the receiving loop: the path message, then receive_file to
\* temp_dir/rel_path.  Bytes left over are read as the next message, which
\* then does not parse.
UploadReceiveFile ==
    /\ t_pc = "receiving"
    /\ t_todo > 0
    /\ LET file_info == Head(t_wire.items)
           got == ReceiveFile(file_info.frame, t_env.recv)
       IN  IF got.ok /\ got.rest = <<>>
           THEN /\ t_temp' = TreeDir([p \in DOMAIN t_temp.tree
                                            \cup {file_info.path} |->
                                  IF p = file_info.path THEN got.data
                                  ELSE t_temp.tree[p]])
                /\ t_todo' = t_todo - 1
                /\ t_wire' = [t_wire EXCEPT !.items = Tail(@)]
                /\ UNCHANGED t_pc
           ELSE /\ t_temp' = NoTreeDir
                /\ t_pc' = "failed"
                /\ UNCHANGED <<t_todo, t_wire>>
    /\ UNCHANGED <<t_pkg, t_env, t_final, t_down>>

\* The validation and the move to final_dir (the Game and the Version record
\* follow, see UploadGameInsertGame).
UploadValidate ==
    /\ t_pc = "receiving"
    /\ t_todo = 0
    /\ IF ValidateGamePackage(t_temp.tree)
       THEN /\ t_final' = MoveTree(t_final, t_temp.tree)
            /\ t_pc' = "uploaded"
       ELSE /\ t_pc' = "failed"
            /\ UNCHANGED t_final
    /\ t_temp' = NoTreeDir
    /\ UNCHANGED <<t_pkg, t_env, t_wire, t_todo, t_down>>

\* _handle_download_game from get_game_files on.
DownloadSend(order) ==
    /\ t_pc = "uploaded"
    /\ t_final.exists
    /\ t_down' = SendPackage(t_final.tree, order)
    /\ t_pc' = "downloaded"
    /\ UNCHANGED <<t_pkg, t_env, t_wire, t_todo, t_temp, t_final>>

\* Everything but the transfer holds still.
TransferOnly ==
    UNCHANGED <<lobbyVars, last, game, versions, gw_pending, catalogVars,
                registerVars, persistVars, clientVars, lockVars, downloadVars>>

TransferNext ==
    \/ \E order \in GetGameFiles(t_pkg) : UploadSend(order) /\ TransferOnly
    \/ UploadReceiveCount /\ TransferOnly
    \/ UploadReceiveFile /\ TransferOnly
    \/ UploadValidate /\ TransferOnly
    \/ \E order \in GetGameFiles(t_final.tree) :
          DownloadSend(order) /\ TransferOnly

\* ------------------------------------------------- Catalog: one collection
DocIds == 1..MaxDocs
Vals == 1..NVals

\* json.dump of the collection: the entries "<_id>": {...} in dict order.
Serialize(collection) ==
    [i \in 1..Len(collection) |-> <<collection[i].id, collection[i].val>>]

\* _save_collection.  open(filepath, 'w') raises: the file stays as it is;
\* json.dump raises: the file holds the first `written` entries; the
\* exception is printed and the caller goes on either way.
SaveCollection(collection, outcome, written) ==
    IF outcome = "open_failed" THEN disk
    ELSE IF outcome = "dump_failed"
    THEN [state |-> "partial",
          text |-> SubSeq(Serialize(collection), 1, written)]
    ELSE [state |-> "whole", text |-> Serialize(collection)]

\* The outcomes of one save of `collection`.
SaveOutcomes(collection) ==
    {<<"ok", 0>>, <<"open_failed", 0>>}
        \cup {<<"dump_failed", k>> : k \in 0..(Len(collection) - 1)}

\* self.collections[collection][doc_id] = data: a new key goes last, an
\* existing key keeps its place.
Store(collection, id, val) ==
    IF \E i \in 1..Len(collection) : collection[i].id = id
    THEN [i \in 1..Len(collection) |->
            IF collection[i].id = id THEN [id |-> id, val |-> val]
            ELSE collection[i]]
    ELSE Append(collection, [id |-> id, val |-> val])

\* An insert that undoes itself and answers failure when the save raises.
HandleInsert_RollsBack(id, given, val, save) ==
    /\ given \/ \A i \in 1..Len(docs) : docs[i].id # id
    /\ docs' = IF save[1] = "ok" THEN Store(docs, id, val) ELSE docs
    /\ disk' = IF save[1] = "ok" THEN SaveCollection(docs', save[1], save[2])
               ELSE disk
    /\ db_reply' = [action |-> "insert", success |-> save[1] = "ok",
                    count |-> 1]

\* _handle_insert.  given: the request carries '_id'; else id is the uuid4,
\* in use by no document.
HandleInsert(id, given, val, save) ==
    /\ given \/ \A i \in 1..Len(docs) : docs[i].id # id
    /\ docs' = Store(docs, id, val)
    /\ disk' = SaveCollection(docs', save[1], save[2])
    /\ db_reply' = [action |-> "insert", success |-> TRUE, count |-> 1]

\* _handle_update: every document that matches {val: query} gets val update;
\* the save only if one matched.
HandleUpdate(query, update, save) ==
    LET matched == {i \in 1..Len(docs) : docs[i].val = query}
    IN  /\ docs' = [i \in 1..Len(docs) |->
                      IF i \in matched THEN [docs[i] EXCEPT !.val = update]
                      ELSE docs[i]]
        /\ disk' = IF matched # {}
                   THEN SaveCollection(docs', save[1], save[2]) ELSE disk
        /\ matched = {} => save = <<"ok", 0>>
        /\ db_reply' = [action |-> "update", success |-> TRUE,
                        count |-> Cardinality(matched)]

RECURSIVE Remaining(_, _)
Remaining(collection, query) ==
    IF collection = <<>> THEN <<>>
    ELSE IF Head(collection).val = query
    THEN Remaining(Tail(collection), query)
    ELSE <<Head(collection)>> \o Remaining(Tail(collection), query)

\* _handle_delete: every document that matches {val: query} is deleted; the
\* save only if one matched.
HandleDelete(query, save) ==
    LET to_delete == {i \in 1..Len(docs) : docs[i].val = query}
    IN  /\ docs' = Remaining(docs, query)
        /\ disk' = IF to_delete # {}
                   THEN SaveCollection(docs', save[1], save[2]) ELSE disk
        /\ to_delete = {} => save = <<"ok", 0>>
        /\ db_reply' = [action |-> "delete", success |-> TRUE,
                        count |-> Cardinality(to_delete)]

\* Everything but the collection holds still.
PersistOnly ==
    UNCHANGED <<lobbyVars, last, game, versions, gw_pending, catalogVars,
                registerVars, transferVars, clientVars, lockVars, downloadVars>>

PersistNext ==
    \/ \E id \in DocIds, given \in BOOLEAN, val \in Vals :
          \E save \in SaveOutcomes(Store(docs, id, val)) :
              HandleInsert(id, given, val, save) /\ PersistOnly
    \/ \E query \in Vals, update \in Vals :
          \E save \in SaveOutcomes(docs) :
              HandleUpdate(query, update, save) /\ PersistOnly
    \/ \E query \in Vals :
          \E save \in SaveOutcomes(Remaining(docs, query)) :
              HandleDelete(query, save) /\ PersistOnly

\* ------------------------------------------------------------ specification
\* The step's effect on `last`.  An observing specification records the
\* response that connection c is sent for `action`; a step that sends none
\* (the first part of a split handler, the environment) clears it.
Sent(obs, c, action, reply) ==
    /\ last' = IF obs THEN [conn |-> c, action |-> action, reply |-> reply]
               ELSE last
    /\ UNCHANGED <<catalogVars, registerVars, transferVars, persistVars, clientVars, lockVars, downloadVars>>

Silent(obs) ==
    /\ last' = IF obs THEN NoLast ELSE last
    /\ UNCHANGED <<catalogVars, registerVars, transferVars, persistVars, clientVars, lockVars, downloadVars>>

\* The requests that the connections in CS send, logging in to the accounts
\* in US.  relogin says whether a connection that is logged in sends login
\* again (the server accepts it; the bundled client offers login only while
\* logged out, client_demo_package/lobby_client.py run()).
LobbyNext(CS, US, relogin, obs) ==
    \/ \E c \in CS, u \in US, ok \in BOOLEAN :
          /\ relogin \/ ~session[c].logged_in
          /\ LoginCheck(c, u, ok)
          /\ IF LoginError(u, ok) = "" THEN Silent(obs)
             ELSE Sent(obs, c, "login", Reply(FALSE, LoginError(u, ok)))
    \/ \E c \in CS : LoginCommit(c) /\ Sent(obs, c, "login", Reply(TRUE, ""))
    \/ \E c \in CS : Logout(c) /\ Sent(obs, c, "logout", Reply(TRUE, ""))
    \/ \E c \in CS : Disconnect(c) /\ Silent(obs)
    \/ \E c \in CS, name \in {"missing", "unknown", "known"} :
          /\ CreateRoomBegin(c, name)
          /\ IF CreateRoomError(name) = "" THEN Silent(obs)
             ELSE Sent(obs, c, "create_room", Reply(FALSE, CreateRoomError(name)))
    \/ \E c \in CS :
          /\ CreateRoomInsert(c)
          /\ Sent(obs, c, "create_room", [Reply(TRUE, "") EXCEPT !.is_host = "true"])
    \/ \E c \in CS, room_id \in RoomIds \cup {None} :
          JoinRoom(c, room_id) /\ Sent(obs, c, "join_room", JoinRoomReply(c, room_id))
    \/ \E c \in CS : LeaveRoom(c) /\ Sent(obs, c, "leave_room", LeaveRoomReply(c))
    \/ \E c \in CS :
          /\ StartGameBegin(c)
          /\ IF StartGameError(c) = "" THEN Silent(obs)
             ELSE Sent(obs, c, "start_game", Reply(FALSE, StartGameError(c)))
    \/ \E c \in CS,
          outcome \in {"manifest_error", "spawn_failed", "crashed", "alive"} :
          /\ StartGameSpawn(c, outcome)
          /\ Sent(obs, c, "start_game", StartGameReply(c, outcome))
    \/ \E c \in CS :
          CheckGameStatus(c) /\ Sent(obs, c, "check_game_status", CheckGameStatusReply(c))
    \/ \E c \in CS : EndGame(c) /\ Sent(obs, c, "end_game", Reply(TRUE, ""))
    \/ \E c \in CS : ListRooms(c) /\ Sent(obs, c, "list_rooms", Reply(TRUE, ""))
    \/ \E i \in 1..NRooms : GameExit(i) /\ Silent(obs)

\* The room membership requests alone: every room stays in status waiting.
RoomsNext(CS, US) ==
    \/ \E c \in CS, u \in US, ok \in BOOLEAN :
          /\ ~session[c].logged_in
          /\ LoginCheck(c, u, ok)
          /\ Silent(FALSE)
    \/ \E c \in CS : LoginCommit(c) /\ Silent(FALSE)
    \/ \E c \in CS : Logout(c) /\ Silent(FALSE)
    \/ \E c \in CS : Disconnect(c) /\ Silent(FALSE)
    \/ \E c \in CS, name \in {"missing", "unknown", "known"} :
          CreateRoomBegin(c, name) /\ Silent(FALSE)
    \/ \E c \in CS : CreateRoomInsert(c) /\ Silent(FALSE)
    \/ \E c \in CS, room_id \in RoomIds \cup {None} :
          JoinRoom(c, room_id) /\ Silent(FALSE)
    \/ \E c \in CS : LeaveRoom(c) /\ Silent(FALSE)

GatewayNext(obs) ==
    \/ \E v \in Versions, m \in 0..MaxPlayers :
          UpdateGameRecord(v, m) /\ Silent(obs)
    \/ UpdateInsertVersion /\ Silent(obs)
    \/ RemoveGame /\ Silent(obs)

\* The whole Lobby, two connections and two accounts, over a Catalog that holds
\* still: every Game record the Gateway can have written is an initial state.
FullConns == 1..(NConn - 1)
FullUsers == 1..(NUsers - 1)

Next == LobbyNext(FullConns, FullUsers, FALSE, FALSE)

Spec == Init /\ [][Next]_vars

\* The thread that holds the mutex inside _handle_start_game keeps running.
StartGameReturns ==
    \E c \in FullConns,
       outcome \in {"manifest_error", "spawn_failed", "crashed", "alive"} :
       /\ StartGameSpawn(c, outcome)
       /\ Sent(FALSE, c, "start_game", StartGameReply(c, outcome))

SpecFair == Spec /\ WF_vars(StartGameReturns)

\* The same with connections that send login while logged in.
NextRelogin == LobbyNext(FullConns, FullUsers, TRUE, FALSE)

SpecRelogin == Init /\ [][NextRelogin]_vars

\* The same as Spec with the responses observed.
NextObserved == LobbyNext(FullConns, FullUsers, FALSE, TRUE)

SpecObserved == Init /\ [][NextObserved]_vars

\* Room membership with every connection and account, clients logging in only
\* while logged out.
NextRooms == RoomsNext(Conns, Users)

SpecRooms == Init /\ [][NextRooms]_vars

\* The Lobby serving one connection while the Gateway updates the Catalog,
\* the responses observed.
FloatConns == {1}
FloatUsers == {1}

NextFloat == LobbyNext(FloatConns, FloatUsers, FALSE, TRUE) \/ GatewayNext(TRUE)

SpecFloat == Init /\ [][NextFloat]_vars

\* The Developer Gateway and the Catalog, the Lobby idle.
NextCatalog == CatalogNext

SpecCatalog == Init /\ [][NextCatalog]_vars

\* The register requests of the Lobby and of the Gateway.
NextRegister == RegisterNext

SpecRegister == Init /\ [][NextRegister]_vars

\* One package on its way from a developer's game_dir to a player: every
\* package of at most three files, every size that recv may return, and a
\* final_dir that an earlier upload may have left behind.
StaleTree == [p \in {"assets/a.bin"} |-> <<1>>]

InitTransfer ==
    /\ InitNoClient
    /\ InitServers
    /\ game = [status |-> "active", latest_version |-> 1, max_players |-> 2]
    /\ InitEmptyCollection
    /\ t_pc = "ready"
    /\ t_pkg \in Trees
    /\ t_env \in [recv : 1..ChunkSize, stale : BOOLEAN]
    /\ t_wire = NoWire
    /\ t_todo = 0
    /\ t_temp = NoTreeDir
    /\ t_final = IF t_env.stale THEN TreeDir(StaleTree) ELSE NoTreeDir
    /\ t_down = NoWire

NextTransfer == TransferNext

SpecTransfer == InitTransfer /\ [][NextTransfer]_vars

\* One collection of the Catalog under insert, update and delete requests,
\* with saves that may fail.
InitPersist ==
    /\ InitNoClient
    /\ InitServers
    /\ game = [status |-> "active", latest_version |-> 1, max_players |-> 2]
    /\ InitNoTransfer
    /\ InitEmptyCollection

NextPersist == PersistNext

SpecPersist == InitPersist /\ [][NextPersist]_vars

\* The port allocator called again and again, by itself, while the game
\* servers that hold its ports exit one by one.
NextPorts ==
    \/ \E bound \in BOOLEAN : PortsAllocate(bound)
    \/ \E i \in 1..(NumPorts + 2) : GameExit(i) /\ Silent(TRUE)

SpecPorts == InitPersist /\ [][NextPorts]_vars

\* One Lobby connection and one Gateway connection, logging in and out and
\* sending every request, also while not logged in; the answers to those
\* are observed.  The Gateway's connections are numbered after the Lobby's.
GateDevConns == {1}

NotLoggedIn == Reply(FALSE, "Not logged in")

NextGate ==
    \/ RoomsNext(FloatConns, FloatUsers)
    \/ \E c \in FloatConns, action \in LobbyProtected :
          LobbyGate(c) /\ Sent(TRUE, c, action, NotLoggedIn)
    \/ CatalogSteps(GateDevConns)
    \/ \E d \in GateDevConns, action \in GatewayProtected :
          /\ DevGate(d)
          /\ last' = [conn |-> NConn + d, action |-> action,
                      reply |-> NotLoggedIn]
          /\ UNCHANGED <<lobbyVars, game, versions, gw_pending, registerVars,
                         transferVars, persistVars, clientVars, lockVars, downloadVars>>

SpecGate == InitPersist /\ [][NextGate]_vars

\* ---------------------------------------------------------- _handle_client
\* The loop of _handle_client of the three servers on one connection: what it
\* reads and what it writes, message by message.
MaxRequests == 4

Servers == {"lobby", "gateway", "catalog"}

\* What _process_request does with a request, by the server: "plain" returns
\* a response dict (errors included), "raises" lets an exception out,
\* "download_game" sends its own response and the files and returns None,
\* "upload_game" and "update_game" send the ready signal and go on reading.
Handlers(server) ==
    IF server = "lobby" THEN {"plain", "raises", "download_game"}
    ELSE IF server = "gateway" THEN {"plain", "upload_game", "update_game"}
    ELSE {"plain", "raises"}

\* A message written for request n; final is FALSE for the ready signal, the
\* file_count message and the file frames.
Written(n, final) == [req |-> n, final |-> final]

\* One turn of the loop: receive_message, `if not message: break`,
\* _process_request and `if response: send_message(response)`.  message
\* "closed": the peer is gone; "empty": a JSON value that is falsy, {} say;
\* sent: whether the socket takes the response.
HandleClientReceive(message, handler, sent) ==
    /\ hc_pc = "recv"
    /\ hc_read < MaxRequests
    /\ IF message # "request" \/ handler = "raises"
       THEN /\ hc_pc' = "closed"
            /\ hc_read' = IF message = "request" THEN hc_read + 1 ELSE hc_read
            /\ UNCHANGED <<hc_action, hc_sent>>
       ELSE /\ hc_read' = hc_read + 1
            /\ IF handler \in {"upload_game", "update_game"}
               THEN /\ hc_sent' = Append(hc_sent, Written(hc_read + 1, FALSE))
                    /\ hc_pc' = "ready"
                    /\ hc_action' = handler
               ELSE /\ hc_action' = hc_action
                    /\ IF ~sent
                       THEN /\ hc_pc' = "closed"
                            /\ hc_sent' = hc_sent
                       ELSE /\ hc_pc' = "recv"
                            /\ hc_sent' =
                                  IF handler = "download_game"
                                  THEN hc_sent \o <<Written(hc_read + 1, TRUE),
                                                    Written(hc_read + 1, FALSE),
                                                    Written(hc_read + 1, FALSE)>>
                                  ELSE Append(hc_sent, Written(hc_read + 1, TRUE))
    /\ UNCHANGED hc_server

\* _handle_upload_game and _handle_update_game from their receive_message of
\* the file_count message to their return, and the rest of the loop's turn.
\* file_msg "closed": receive_message returned None and closed the protocol;
\* "empty": it returned a falsy JSON value, so the handler returns None and
\* the loop goes on; "count": the handler returns a response dict, of
\* success or of the error that its try block caught.
HandleFileCount(file_msg, sent) ==
    /\ hc_pc = "ready"
    /\ IF file_msg = "closed"
       THEN hc_pc' = "closed" /\ hc_sent' = hc_sent
       ELSE IF file_msg = "empty"
       THEN hc_pc' = "recv" /\ hc_sent' = hc_sent
       ELSE IF ~sent
       THEN hc_pc' = "closed" /\ hc_sent' = hc_sent
       ELSE /\ hc_pc' = "recv"
            /\ hc_sent' = Append(hc_sent, Written(hc_read, TRUE))
    /\ hc_action' = "none"
    /\ UNCHANGED <<hc_server, hc_read>>

ClientOnly ==
    UNCHANGED <<lobbyVars, last, game, versions, gw_pending, catalogVars,
                registerVars, transferVars, persistVars, lockVars, downloadVars>>

InitClient ==
    /\ InitServers
    /\ game = [status |-> "active", latest_version |-> 1, max_players |-> 2]
    /\ InitNoTransfer
    /\ InitEmptyCollection
    /\ hc_server \in Servers
    /\ hc_pc = "recv"
    /\ hc_action = "none"
    /\ hc_read = 0
    /\ hc_sent = <<>>

NextSerial ==
    \/ \E message \in {"closed", "empty", "request"}, sent \in BOOLEAN :
          \E handler \in Handlers(hc_server) :
              HandleClientReceive(message, handler, sent) /\ ClientOnly
    \/ \E file_msg \in {"closed", "empty", "count"}, sent \in BOOLEAN :
          HandleFileCount(file_msg, sent) /\ ClientOnly

SpecSerial == InitClient /\ [][NextSerial]_vars

\* ------------------------------------------- Catalog: collection mutexes
\* The requests: insert of a document with val 1, find / find_one / delete
\* by {val: query}, update of {val: query} to a greater {val: update}.
LockRequests ==
    {[action |-> a, coll |-> coll, query |-> q, update |-> u] :
        a \in {"find", "find_one", "delete"}, coll \in Colls, q \in Vals, u \in {0}}
    \cup {[action |-> "insert", coll |-> coll, query |-> 0, update |-> u] :
             coll \in Colls, u \in {1}}
    \cup {r \in [action : {"update"}, coll : Colls, query : Vals, update : Vals] :
             r.query < r.update}

\* _process_request: the thread has read a request and routes it.
LockReceive(w, req) ==
    /\ w_pc[w] = "idle"
    /\ w_pc' = [w_pc EXCEPT ![w] = "wait"]
    /\ w_req' = [w_req EXCEPT ![w] = req]
    /\ w_reply' = [w_reply EXCEPT ![w] = NoResponse]
    /\ UNCHANGED <<collections, locks, w_i, w_out>>

\* A mutex that is never seen taken.
LockFree_Always(coll) == TRUE

\* Lock.acquire() returns only when nobody holds the lock.
LockFree(coll) == locks[coll] = None

\* with self.locks[collection]: entered.
LockAcquire(w) ==
    /\ w_pc[w] = "wait"
    /\ LockFree(w_req[w].coll)
    /\ locks' = [locks EXCEPT ![w_req[w].coll] = w]
    /\ w_pc' = [w_pc EXCEPT ![w] = "scan"]
    /\ w_i' = [w_i EXCEPT ![w] = 1]
    /\ w_out' = [w_out EXCEPT ![w] = <<>>]
    /\ UNCHANGED <<collections, w_req, w_reply>>

\* _match_query(doc, {val: query}) for a document that is in the dict.
MatchQuery(doc, query) == doc.state = "live" /\ doc.val = query

\* The least _id not yet given out, 0 when there is none left.
NextDocId(collection) ==
    IF \E id \in LockDocIds : collection[id].state = "unused"
    THEN CHOOSE id \in LockDocIds :
            /\ collection[id].state = "unused"
            /\ \A j \in 1..(id - 1) : collection[j].state # "unused"
    ELSE 0

\* One turn of the handler's loop over the collection, the mutex held; for
\* insert, the store of the document.  find and delete collect references,
\* find_one returns at the first match, update changes the document in place.
LockScan(w) ==
    LET req == w_req[w]
        collection == collections[req.coll]
        i == w_i[w]
    IN  /\ w_pc[w] = "scan"
        /\ IF req.action = "insert"
           THEN /\ collections' =
                     IF NextDocId(collection) = 0 THEN collections
                     ELSE [collections EXCEPT ![req.coll][NextDocId(collection)] =
                              [state |-> "live", val |-> req.update]]
                /\ w_pc' = [w_pc EXCEPT ![w] = "save"]
                /\ UNCHANGED <<w_i, w_out>>
           ELSE IF i > NLockDocs
           THEN /\ w_pc' = [w_pc EXCEPT ![w] =
                              IF req.action = "delete" THEN "apply"
                              ELSE IF req.action = "update" /\ w_out[w] # <<>>
                              THEN "save" ELSE "unlock"]
                /\ UNCHANGED <<collections, w_i, w_out>>
           ELSE IF ~MatchQuery(collection[i], req.query)
           THEN /\ w_i' = [w_i EXCEPT ![w] = i + 1]
                /\ UNCHANGED <<collections, w_pc, w_out>>
           ELSE /\ w_out' = [w_out EXCEPT ![w] = Append(@, i)]
                /\ w_i' = [w_i EXCEPT ![w] = i + 1]
                /\ collections' =
                     IF req.action = "update"
                     THEN [collections EXCEPT ![req.coll][i].val = req.update]
                     ELSE collections
                /\ w_pc' = [w_pc EXCEPT ![w] =
                              IF req.action = "find_one" THEN "unlock" ELSE @]
        /\ UNCHANGED <<locks, w_req, w_reply>>

\* _handle_delete: for doc_id in to_delete: del ...[doc_id], one at a time.
LockApply(w) ==
    LET req == w_req[w]
        gone == {id \in LockDocIds : collections[req.coll][id].state = "deleted"}
        todo == {k \in 1..Len(w_out[w]) : w_out[w][k] \notin gone}
    IN  /\ w_pc[w] = "apply"
        /\ IF todo = {}
           THEN /\ w_pc' = [w_pc EXCEPT ![w] =
                              IF w_out[w] # <<>> THEN "save" ELSE "unlock"]
                /\ UNCHANGED collections
           ELSE /\ collections' =
                     [collections EXCEPT
                         ![req.coll][w_out[w][CHOOSE k \in todo :
                                                \A j \in todo : k <= j]].state =
                             "deleted"]
                /\ UNCHANGED w_pc
        /\ UNCHANGED <<locks, w_req, w_i, w_out, w_reply>>

\* self._save_collection(collection), the mutex still held.
LockSave(w) ==
    /\ w_pc[w] = "save"
    /\ w_pc' = [w_pc EXCEPT ![w] = "unlock"]
    /\ UNCHANGED <<collections, locks, w_req, w_i, w_out, w_reply>>

\* The return out of the with block: the mutex is released.  The response
\* of find and find_one holds the documents themselves, not copies.
LockRelease(w) ==
    /\ w_pc[w] = "unlock"
    /\ locks' = [locks EXCEPT ![w_req[w].coll] = IF @ = w THEN None ELSE @]
    /\ w_pc' = [w_pc EXCEPT ![w] = "send"]
    /\ UNCHANGED <<collections, w_req, w_i, w_out, w_reply>>

\* Some other thread is in the loop of an update of the same collection and
\* has changed one of the documents in refs but not yet another that it
\* will change.
TornUpdate(w, refs) ==
    \E u \in Workers \ {w} :
        /\ w_pc[u] = "scan"
        /\ w_req[u].action = "update"
        /\ w_req[u].coll = w_req[w].coll
        /\ \E k \in 1..Len(refs) : InList(refs[k], w_out[u])
        /\ \E k \in 1..Len(refs) :
              /\ refs[k] >= w_i[u]
              /\ MatchQuery(collections[w_req[u].coll][refs[k]], w_req[u].query)

\* protocol.send_message(response) of _handle_client: json.dumps reads the
\* documents of the response as they are now.
LockSend(w) ==
    LET req == w_req[w]
        refs == IF req.action \in {"find", "find_one"} THEN w_out[w] ELSE <<>>
    IN  /\ w_pc[w] = "send"
        /\ w_reply' = [w_reply EXCEPT ![w] =
              [action |-> req.action,
               vals |-> [k \in 1..Len(refs) |-> collections[req.coll][refs[k]].val],
               torn |-> TornUpdate(w, refs)]]
        /\ w_pc' = [w_pc EXCEPT ![w] = "idle"]
        /\ w_req' = [w_req EXCEPT ![w] = NoRequest]
        /\ w_i' = [w_i EXCEPT ![w] = 1]
        /\ w_out' = [w_out EXCEPT ![w] = <<>>]
        /\ UNCHANGED <<collections, locks>>

LocksOnly ==
    UNCHANGED <<lobbyVars, last, game, versions, gw_pending, catalogVars,
                registerVars, transferVars, persistVars, clientVars,
                downloadVars>>

NextLocks ==
    \/ \E w \in Workers, req \in LockRequests : LockReceive(w, req) /\ LocksOnly
    \/ \E w \in Workers : LockAcquire(w) /\ LocksOnly
    \/ \E w \in Workers : LockScan(w) /\ LocksOnly
    \/ \E w \in Workers : LockApply(w) /\ LocksOnly
    \/ \E w \in Workers : LockSave(w) /\ LocksOnly
    \/ \E w \in Workers : LockRelease(w) /\ LocksOnly
    \/ \E w \in Workers : LockSend(w) /\ LocksOnly

SpecLocks == InitPersist /\ [][NextLocks]_vars

\* ------------------------------------------- Lobby: download_game, per send
\* One connection of the Lobby that is sent download_game requests for
\* packages of up to MaxFiles files.
MaxFiles == 3
MaxDownloads == 2

\* Back in _handle_client: `while not protocol.closed`, then receive_message.
HandleClientLoop == IF dl_closed THEN "closed" ELSE "reading"

\* _handle_download_game from the success response on: the response and the
\* {file_count} message.  sock_ok = FALSE: sendall raises, send_message sets
\* protocol.closed and the handler goes on.
DownloadFileCount(k, sock_ok) ==
    /\ dl_pc = "reading"
    /\ ~dl_broken
    /\ dl_served < MaxDownloads
    /\ dl_served' = dl_served + 1
    /\ dl_files' = k
    /\ dl_announced' = sock_ok
    /\ dl_infos' = 0
    /\ dl_frames' = 0
    /\ dl_closed' = ~sock_ok
    /\ dl_broken' = ~sock_ok
    /\ dl_pc' = "loop"

\* One turn of the loop up to send_file: os.path.getsize, which may raise
\* (the exception ends the connection), and the {path, size} message.
DownloadFileInfo(outcome) ==
    /\ dl_pc = "loop"
    /\ dl_infos < dl_files
    /\ dl_broken => outcome # "sent"
    /\ IF outcome = "getsize_raised"
       THEN /\ dl_pc' = "closed"
            /\ UNCHANGED <<dl_infos, dl_closed, dl_broken>>
       ELSE IF outcome = "sent"
       THEN /\ dl_pc' = "file"
            /\ dl_infos' = dl_infos + 1
            /\ UNCHANGED <<dl_closed, dl_broken>>
       ELSE /\ dl_pc' = "file"
            /\ dl_closed' = TRUE
            /\ dl_broken' = TRUE
            /\ UNCHANGED dl_infos
    /\ UNCHANGED <<dl_files, dl_announced, dl_frames, dl_served>>

\* `if not protocol.send_file(full_path): return None`.  send_file returns
\* False when open or read raises ("unreadable") and when sendall raises
\* ("send_failed"); it leaves protocol.closed as it is.
DownloadFileData(outcome) ==
    /\ dl_pc = "file"
    /\ dl_broken => outcome # "sent"
    /\ IF outcome = "sent"
       THEN /\ dl_pc' = "loop"
            /\ dl_frames' = dl_frames + 1
            /\ UNCHANGED dl_broken
       ELSE /\ dl_pc' = HandleClientLoop
            /\ dl_broken' = (dl_broken \/ outcome = "send_failed")
            /\ UNCHANGED dl_frames
    /\ UNCHANGED <<dl_files, dl_announced, dl_infos, dl_closed, dl_served>>

\* The loop is over: `return None`, and _handle_client sends nothing more.
DownloadReturn ==
    /\ dl_pc = "loop"
    /\ dl_infos = dl_files
    /\ dl_pc' = HandleClientLoop
    /\ UNCHANGED <<dl_files, dl_announced, dl_infos, dl_frames, dl_closed,
                   dl_broken, dl_served>>

\* receive_message on a socket that has failed: no message, the loop of
\* _handle_client breaks and the connection is closed.
DownloadReadFails ==
    /\ dl_pc = "reading"
    /\ dl_broken
    /\ dl_pc' = "closed"
    /\ UNCHANGED <<dl_files, dl_announced, dl_infos, dl_frames, dl_closed,
                   dl_broken, dl_served>>

DownloadOnly ==
    UNCHANGED <<lobbyVars, last, game, versions, gw_pending, catalogVars,
                registerVars, transferVars, persistVars, clientVars,
                lockVars>>

InfoOutcomes == {"sent", "getsize_raised", "send_failed"}
DataOutcomes == {"sent", "unreadable", "send_failed"}

NextDownload ==
    \/ \E k \in 0..MaxFiles, sock_ok \in BOOLEAN :
          DownloadFileCount(k, sock_ok) /\ DownloadOnly
    \/ \E outcome \in InfoOutcomes : DownloadFileInfo(outcome) /\ DownloadOnly
    \/ \E outcome \in DataOutcomes : DownloadFileData(outcome) /\ DownloadOnly
    \/ DownloadReturn /\ DownloadOnly
    \/ DownloadReadFails /\ DownloadOnly

SpecDownload == InitPersist /\ [][NextDownload]_vars

\* ------------------------------------------------------------------ claims
ConnsAs(u) == {c \in Conns : session[c].logged_in /\ session[c].user_id = u}

RoomsHolding(u) == {i \in 1..Len(rooms) : InList(u, rooms[i].players)}

Occurrences(s, x) == Cardinality({i \in 1..Len(s) : s[i] = x})

\* C1: logins with the same valid credentials are serialised, one succeeds
\* and the others are told the account is already logged in, so no two open
\* connections are ever logged in as the same user_id.
C1_OneConnectionPerUser ==
    \A u \in Users : Cardinality(ConnsAs(u)) <= 1

\* C2: every user_id is in the players list of at most one room, and at most
\* once in that list.
C2_AtMostOneRoom ==
    \A u \in Users :
        /\ Cardinality(RoomsHolding(u)) <= 1
        /\ \A i \in 1..Len(rooms) : Occurrences(rooms[i].players, u) <= 1

\* C3: the host_id of every room is one of that room's players, whichever of
\* create_room, join_room, leave_room, logout and disconnect has run, the
\* removal of the host included.
C3_HostIsPlayer ==
    \A i \in 1..Len(rooms) : InList(rooms[i].host_id, rooms[i].players)

\* A room whose host has been removed by logout or disconnect and replaced by
\* a player whose session entry was gone: the host_name is still the old one.
C3_HostReplaced ==
    \E i \in 1..Len(rooms) :
        /\ rooms[i].host_name # Username(rooms[i].host_id)
        /\ InList(rooms[i].host_id, rooms[i].players)

\* C4: no room ever holds more players than its max_players.
C4_WithinMaxPlayers ==
    \A i \in 1..Len(rooms) : Len(rooms[i].players) <= rooms[i].max_players

\* The answer to a join_room of a waiting room that the caller is not in.
C5_JoinAnswers ==
    \A c \in Conns, i \in 1..Len(rooms) :
        ( /\ pc[c] = "idle"
          /\ session[c].logged_in
          /\ rooms[i].status = "waiting"
          /\ ~InList(session[c].user_id, rooms[i].players) )
        => LET rep == JoinRoomReply(c, rooms[i].room_id) IN
           IF Len(rooms[i].players) < rooms[i].max_players
           THEN rep.success
           ELSE ~rep.success /\ rep.error = "Room is full"

\* A join_room that succeeds takes exactly one slot of the room.
C5_JoinStep ==
    \A c \in Conns, i \in 1..Len(rooms) :
        ( /\ ~InList(session[c].user_id, rooms[i].players)
          /\ JoinRoom(c, rooms[i].room_id)
          /\ JoinRoomReply(c, rooms[i].room_id).success )
        => LET j == RoomIndex(rooms', rooms[i].room_id) IN
           /\ j # 0
           /\ rooms'[j].players = Append(rooms[i].players, session[c].user_id)

\* C5: join_room requests on a waiting room are served one at a time, each
\* succeeds exactly when the room still has a free slot and takes that slot,
\* and each of the others is answered "Room is full"; so of N requests on a
\* room with fewer than N free slots exactly as many succeed as there were
\* slots, and a full room of two turns a third player away.
C5_JoinCapacity == []C5_JoinAnswers /\ [][C5_JoinStep]_vars

\* A full waiting room of two, and a third logged-in player asking to join.
C5_ThirdPlayerTurnedAway ==
    \E c \in Conns, i \in 1..Len(rooms) :
        /\ pc[c] = "idle"
        /\ session[c].logged_in
        /\ rooms[i].status = "waiting"
        /\ Len(rooms[i].players) = 2
        /\ rooms[i].max_players = 2
        /\ ~InList(session[c].user_id, rooms[i].players)
        /\ JoinRoomReply(c, rooms[i].room_id).error = "Room is full"

\* C6: when the host of a room of two or more leaves it, by leave_room,
\* logout or disconnect, the room stays, its host_id is the first remaining
\* player in join order and its host_name that player's username, list_rooms
\* reports that player as host, and that player's next check_game_status
\* answers is_host = true.
C6_HostSucceeds ==
    [][ \A rid \in RoomIds :
          LET i == RoomIndex(rooms, rid)
              j == RoomIndex(rooms', rid)
          IN  ( /\ i # 0
                /\ j # 0
                /\ Len(rooms[i].players) >= 2
                /\ ~InList(rooms[i].host_id, rooms'[j].players) )
              => LET first == ListRemove(rooms[i].players, rooms[i].host_id)[1] IN
                 /\ rooms'[j].host_id = first
                 /\ rooms'[j].host_name = Username(first)
                 /\ ListRoomsResponse(rooms')[j].host = Username(first)
                 /\ \A c \in Conns :
                       ( /\ session'[c].logged_in
                         /\ session'[c].user_id = first
                         /\ pc'[c] = "idle" )
                       => CheckGameStatusReply(c)'.is_host = "true"
      ]_vars

\* C7: whenever the Lobby mutex is free, a room has status in_game exactly
\* when its game_process is set, and its game_port is set in exactly the same
\* states.
C7_InGameIffProcess ==
    lock = None =>
        \A i \in 1..Len(rooms) :
            /\ rooms[i].status = "in_game" <=> rooms[i].game_process # "none"
            /\ rooms[i].game_port # None <=> rooms[i].game_process # "none"

\* A room still in_game whose game server has exited, the mutex free.
C7_InGameProcessExited ==
    /\ lock = None
    /\ \E i \in 1..Len(rooms) :
          /\ rooms[i].status = "in_game"
          /\ rooms[i].game_process = "exited"
          /\ rooms[i].game_port # None

\* C8: a start_game whose game server has exited at the poll 300 ms after
\* the spawn answers "Game server crashed on startup" and leaves the room
\* waiting with game_process and game_port None and the log handle closed;
\* the caller is still the host of a waiting room of an active game and the
\* port is free again, so a later start_game can succeed.
C8_EarlyCrash ==
    [][ \A c \in Conns :
          ( /\ last'.conn = c
            /\ last'.action = "start_game"
            /\ last'.reply.error = "Game server crashed on startup" )
          => LET i == FindRoom(rooms', session'[c].user_id) IN
             /\ ~last'.reply.success
             /\ i # 0
             /\ rooms'[i].status = "waiting"
             /\ rooms'[i].game_process = "none"
             /\ rooms'[i].game_port = None
             /\ ~rooms'[i].game_log_file
             /\ leaked_logs' = leaked_logs
             /\ lock' = None
             /\ StartGameError(c)' = ""
             /\ ~PortInUse(rooms', next_game_port' - 1)
      ]_vars

\* The response just sent reports the early crash.
C8_CrashReported ==
    /\ last.action = "start_game"
    /\ last.reply.error = "Game server crashed on startup"
    /\ rooms[FindRoom(rooms, session[last.conn].user_id)].status = "waiting"

\* C9: a start_game that succeeds uses the latest_version that the Game
\* record holds when the handler fetches it: the handler writes it to the
\* room's version, spawns from the directory of that version and answers
\* with it.
C9_StartUsesLatest ==
    [][ /\ \A c \in Conns :
              (StartGameBegin(c) /\ StartGameError(c) = "")
              => rooms'[FindRoom(rooms', session[c].user_id)].version
                    = game.latest_version
        /\ (last'.action = "start_game" /\ last'.reply.success)
           => LET i == FindRoom(rooms', session'[last'.conn].user_id) IN
              /\ rooms'[i].version = rooms[i].version
              /\ last'.reply.version = rooms'[i].version
              /\ last'.reply.spawned = FilePath(rooms'[i].version)
              /\ rooms'[i].status = "in_game"
      ]_vars

\* A start_game has just succeeded with the version of an update.
C9_StartedUpdatedVersion ==
    /\ last.action = "start_game"
    /\ last.reply.success
    /\ last.reply.version = MaxVersion
    /\ last.reply.spawned = FilePath(MaxVersion)

\* C10: every answer of check_game_status to a user who is in a room carries
\* is_host, true exactly when the caller is the room's host_id, whatever the
\* room's status and whether or not the call resets the room.
C10_IsHostAlways ==
    \A c \in Conns :
        LET user_id == session[c].user_id
            i == FindRoom(rooms, user_id)
        IN  (pc[c] = "idle" /\ session[c].logged_in /\ i # 0)
            => CheckGameStatusReply(c).is_host
                  = BoolStr(user_id = rooms[i].host_id)

\* C11: when a logged-in connection logs out, disconnects or is ended by an
\* error, the session entry of its user_id is removed and the user is taken
\* out of every room, so the account can log in again from another
\* connection.
C11_CleanupFreesAccount ==
    [][ \A c \in Conns, u \in Users :
          ( /\ session[c].logged_in
            /\ session[c].user_id = u
            /\ Logout(c) \/ Disconnect(c) )
          => /\ ~session'[c].logged_in
             /\ u \notin sessions'
             /\ \A i \in 1..Len(rooms') : ~InList(u, rooms'[i].players)
             /\ LoginError(u, TRUE)' = ""
      ]_vars

\* A connection has logged out of an account and another connection has just
\* logged in to the same account.
C11_LoggedInAgain ==
    /\ last.action = "login"
    /\ last.reply.success
    /\ \E c \in Conns :
          /\ c # last.conn
          /\ ~session[c].logged_in
          /\ session[c].user_id # None
          /\ session[c].user_id = session[last.conn].user_id

\* C12: no two Game records have the same name, whatever their status, also
\* when two developers upload the same new name at the same time.
C12_UniqueGameNames ==
    \A i, j \in 1..Len(db_game) :
        db_game[i].name = db_game[j].name => i = j

\* C13: no two User records have the same username and account_type, also
\* when two register requests arrive at the same time.
C13_UniqueUsers ==
    \A i, j \in 1..Len(db_user) :
        ( /\ db_user[i].username = db_user[j].username
          /\ db_user[i].account_type = db_user[j].account_type ) => i = j

\* The Version records of game g that carry its latest_version.
LatestVersionRecs(g) ==
    {j \in 1..Len(db_version) :
        /\ db_version[j].game_id = g
        /\ db_version[j].version = db_game[g].latest_version}

\* C14: in every Catalog state every Game has exactly one Version record of
\* its game_id and latest_version.
C14_OneLatestVersion ==
    \A g \in 1..Len(db_game) : Cardinality(LatestVersionRecs(g)) = 1

\* C15: update_game and remove_game of a developer who owns no game of the
\* name answer with the failure and leave the Game records, the Version
\* records and the directories as they are; a Game record changes only at a
\* step of a connection logged in as its developer_id.
C15_OwnerOnly ==
    [][ /\ \A d \in DevConns, name \in GameNames :
              ( /\ ~\E g \in 1..Len(db_game) :
                      /\ db_game[g].name = name
                      /\ db_game[g].developer_id = dsession[d].user_id
                /\ UpdateGameCheck(d, name) \/ RemoveGameCheck(d, name) )
              => /\ OwnerError(d, name) = "Game not found or you do not own it"
                 /\ dpc'[d] = "idle"
                 /\ UNCHANGED <<db_game, db_version, files>>
        /\ \A g \in 1..Len(db_game) :
              db_game'[g] # db_game[g]
              => \E d \in DevConns :
                    /\ dpc'[d] # dpc[d]
                    /\ dsession[d].logged_in
                    /\ dsession[d].user_id = db_game[g].developer_id
      ]_vars

\* A game that its owner has removed, and a logged-in developer who does not
\* own it and is told so.
C15_StrangerTurnedAway ==
    \E g \in 1..Len(db_game), d \in DevConns :
        /\ db_game[g].status = "removed"
        /\ dpc[d] = "idle"
        /\ dsession[d].logged_in
        /\ dsession[d].user_id # db_game[g].developer_id
        /\ OwnerError(d, db_game[g].name) # ""

\* C16: once a Game record has status removed, the directories of its Version
\* records are still there, list_games does not list its name, and game_info,
\* download_game and create_room for the name answer "Game not found".
C16_RemovedIsGone ==
    \A g \in 1..Len(db_game) :
        db_game[g].status = "removed"
        => /\ \A j \in 1..Len(db_version) :
                  db_version[j].game_id = g
                  => files[db_version[j].file_path].exists
           /\ db_game[g].name \notin ListGamesNames
           /\ GameLookupError(db_game[g].name) = "Game not found"
           /\ DownloadGameReply(db_game[g].name).error = "Game not found"

\* C17: when an upload_game or update_game conversation ends in a failure
\* (at the file transfer or the validation, or at the insert of the Game), its
\* temp directory is gone afterwards; when it ends at the file transfer or
\* the validation, no promoted directory is made or changed.
C17_FailureLeavesNoTemp ==
    [][ \A d \in DevConns :
            ( /\ dpc[d] \in {"up_staged", "upd_staged", "up_moved"}
              /\ dpc'[d] = "idle" )
            => /\ ~files'[TempDir(d)].exists
               /\ dpc[d] \in {"up_staged", "upd_staged"}
                  => \A name \in GameNames, v \in Versions :
                        files'[FinalDir(name, v)] = files[FinalDir(name, v)]
      ]_vars

\* An upload has failed at the insert of the Game: its package is promoted,
\* there is no Game record, and no temp directory is left.
C17_UploadFailed ==
    /\ db_game = <<>>
    /\ \A d \in DevConns : dpc[d] = "idle" /\ ~files[TempDir(d)].exists
    /\ \E name \in GameNames, v \in Versions : files[FinalDir(name, v)].exists

\* C18: a step of an update_game conversation leaves every Version record
\* that exists as it is, and leaves the directory of every such record with
\* the content it has.
C18_UpdateKeepsPublished ==
    [][ \A d \in DevConns :
            ( /\ dpc[d] \in {"upd_ready", "upd_staged", "upd_moved", "upd_game"}
              /\ dpc'[d] # dpc[d] )
            => \A j \in 1..Len(db_version) :
                  /\ Len(db_version') >= j
                  /\ db_version'[j] = db_version[j]
                  /\ files'[db_version[j].file_path]
                        = files[db_version[j].file_path]
      ]_vars

\* C19: an upload of a valid package succeeds, and the download that follows
\* sends file_count = the number of files of the package, then exactly its
\* relative paths, each once, each with a frame that is the size and then
\* exactly the uploaded bytes, which receive_file reads back whole.
C19_DownloadIsUpload ==
    /\ (t_pc = "failed") => ~ValidateGamePackage(t_pkg)
    /\ (t_pc = "downloaded") =>
          /\ ValidateGamePackage(t_pkg)
          /\ t_down.file_count = Cardinality(DOMAIN t_pkg)
          /\ Len(t_down.items) = t_down.file_count
          /\ {t_down.items[i].path : i \in 1..Len(t_down.items)} = DOMAIN t_pkg
          /\ \A i \in 1..Len(t_down.items) :
                LET path == t_down.items[i].path
                    frame == t_down.items[i].frame
                IN  /\ path \in DOMAIN t_pkg
                    /\ Len(frame) = SizeLen + Len(t_pkg[path])
                    /\ SubSeq(frame, SizeLen + 1, Len(frame)) = t_pkg[path]
                    /\ ReceiveFile(frame, t_env.recv)
                         = [ok |-> TRUE, data |-> t_pkg[path], rest |-> <<>>]

\* A package of two files, one of more than a chunk and not of whole chunks,
\* has been uploaded over a final_dir that held another file, with recv
\* returning less than a chunk, and has been sent to the player.
C19_PackageDownloaded ==
    /\ t_pc = "downloaded"
    /\ t_env = [recv |-> 1, stale |-> TRUE]
    /\ DOMAIN t_pkg = {"game_info.json", "main.py"}
    /\ Len(t_pkg["main.py"]) = MaxFileLen
    /\ Len(t_down.items) = 2

\* C20: when the last insert, update or delete has changed the collection and
\* has answered success, the collection's file is whole and is the
\* serialization of the collection in memory.
C20_DiskIsMemory ==
    (db_reply.success /\ db_reply.count > 0)
    => disk = [state |-> "whole", text |-> Serialize(docs)]

\* The outcomes of a save of `collection` that raises.
FailedSaves(collection) == SaveOutcomes(collection) \ {<<"ok", 0>>}

\* C21: when the save of an insert, update or delete raises, the request
\* still answers success and its change is in the in-memory collection: the
\* inserted document is there, the matched documents carry the update, the
\* documents to delete are gone.
C21_FailedSaveKeepsMutation ==
    [][ /\ \A id \in DocIds, given \in BOOLEAN, val \in Vals :
              \A save \in FailedSaves(Store(docs, id, val)) :
                  HandleInsert(id, given, val, save)
                  => /\ db_reply'.success
                     /\ \E i \in 1..Len(docs') :
                           docs'[i] = [id |-> id, val |-> val]
        /\ \A query \in Vals, update \in Vals :
              \A save \in FailedSaves(docs) :
                  HandleUpdate(query, update, save)
                  => /\ db_reply'.success
                     /\ Len(docs') = Len(docs)
                     /\ \A i \in 1..Len(docs) :
                           docs[i].val = query => docs'[i].val = update
        /\ \A query \in Vals :
              \A save \in FailedSaves(Remaining(docs, query)) :
                  HandleDelete(query, save)
                  => /\ db_reply'.success
                     /\ ~\E i \in 1..Len(docs') : docs'[i].val = query
      ]_vars

\* A request has answered success with its change in memory, and the file
\* is not the serialization of the collection.
C21_SavedNothing ==
    /\ db_reply.success
    /\ db_reply.count > 0
    /\ docs # <<>>
    /\ disk # [state |-> "whole", text |-> Serialize(docs)]

\* C22: an allocation that succeeds returns a port of the range that was
\* free and leaves the cursor one past it, and does not return the port of
\* the successful allocation just before it; an allocation made while every
\* port of the range is bound fails with "No available ports" and leaves the
\* cursor at the first port.
C22_PortAllocator ==
    [][ \A bound \in BOOLEAN :
          PortsAllocate(bound)
          => LET port == last'.reply.port IN
             /\ last'.reply.success
                => /\ port \in Ports
                   /\ ~PortInUse(rooms, port)
                   /\ next_game_port' = port + 1
                   /\ (last.action = "allocate" /\ last.reply.success)
                      => port # last.reply.port
             /\ ~last'.reply.success
                => /\ last'.reply.error = "No available ports"
                   /\ next_game_port' = PortLo
             /\ (\A q \in Ports : PortInUse(rooms, q)) => ~last'.reply.success
      ]_vars

\* As many allocations as there are ports, all still bound, and the one
\* after them has failed and has put the cursor back.
C22_RangeExhausted ==
    /\ Len(rooms) = NumPorts
    /\ \A q \in Ports : PortInUse(rooms, q)
    /\ last.action = "allocate"
    /\ ~last.reply.success
    /\ next_game_port = PortLo

\* C23: no handler of a Lobby request ends by raising into _handle_client,
\* which would close the connection and clean its session up instead of
\* answering success=false.
C23_FailuresAnswered == \A c \in Conns : pc[c] # "error"

\* C24: while a connection of the Lobby or of the Gateway is not logged in
\* and is between requests, a step leaves the sessions, the rooms, the Game
\* and Version records and the directories as they are, and only a login can
\* begin; what the server then answers to any action but register and login
\* is success=false.  After logout a connection is not logged in.
C24_NotLoggedInRejected ==
    [][ /\ \A c \in FloatConns :
              (~session[c].logged_in /\ pc[c] = "idle")
              => /\ UNCHANGED <<sessions, rooms, next_game_port, leaked_logs>>
                 /\ ~session'[c].logged_in
                 /\ pc'[c] \in {"idle", "login"}
                 /\ (last' # last /\ last'.conn = c
                       /\ last'.action \notin {"register", "login"})
                    => ~last'.reply.success
        /\ \A d \in GateDevConns :
              (~dsession[d].logged_in /\ dpc[d] = "idle")
              => /\ UNCHANGED <<db_game, db_version, files, dpc, dlocal>>
                 /\ (last' # last /\ last'.conn = NConn + d
                       /\ last'.action \notin {"register", "login"})
                    => ~last'.reply.success
        /\ \A c \in FloatConns : Logout(c) => ~session'[c].logged_in
        /\ \A d \in GateDevConns : DevLogout(d) => ~dsession'[d].logged_in
      ]_vars

\* Both connections have logged out, with a room and a game behind them, and
\* the Gateway has just turned a request of its connection away.
C24_TurnedAwayAfterLogout ==
    /\ \A d \in GateDevConns :
          /\ ~dsession[d].logged_in
          /\ dsession[d].user_id # None
          /\ last.conn = NConn + d
    /\ last.reply = NotLoggedIn
    /\ db_game # <<>>
    /\ \A c \in FloatConns : ~session[c].logged_in /\ pc[c] = "idle"

\* C25: end_game by a member of a room that is waiting answers success and
\* changes nothing; by a member of a room that is in_game it answers success
\* and leaves the room waiting with no game process and no game port; either
\* way a second end_game would change nothing more.
C25_EndGameIdempotent ==
    [][ \A c \in Conns :
          EndGame(c) /\ last'.conn = c /\ last'.action = "end_game"
          => LET i == FindRoom(rooms, session[c].user_id) IN
             /\ last'.reply.success
             /\ Len(rooms') = Len(rooms)
             /\ i # 0 =>
                   /\ rooms[i].status = "waiting" => rooms' = rooms
                   /\ rooms[i].status = "in_game"
                      => /\ rooms'[i].status = "waiting"
                         /\ rooms'[i].game_process = "none"
                         /\ rooms'[i].game_port = None
                         /\ \A j \in 1..Len(rooms) :
                               j # i => rooms'[j] = rooms[j]
                   /\ EndGameRoom(rooms'[i]) = rooms'[i]
             /\ i = 0 => rooms' = rooms
             /\ UNCHANGED <<sessions, session, next_game_port>>
      ]_vars

\* end_game has just been answered for a member of a room that has had a
\* game server and is waiting again.
C25_GameEnded ==
    /\ last.action = "end_game"
    /\ last.reply.success
    /\ next_game_port > PortLo
    /\ \E i \in 1..Len(rooms) :
          /\ i = FindRoom(rooms, session[last.conn].user_id)
          /\ rooms[i].status = "waiting"
          /\ rooms[i].game_process = "none"

\* C26: every room of rooms has at least one player: the step that removes a
\* room's last player deletes the room before the lock is released.
C26_NoEmptyRoom ==
    \A i \in 1..Len(rooms) : Len(rooms[i].players) >= 1

\* leave_room has just been answered success to the last player of the only
\* room, and the room is gone.
C26_LastPlayerLeft ==
    /\ last.action = "leave_room"
    /\ last.reply.success
    /\ rooms = <<>>

\* The final responses written for request n.
FinalResponses(n) ==
    {i \in 1..Len(hc_sent) : hc_sent[i].req = n /\ hc_sent[i].final}

\* C27: a connection is served strictly serially: when the loop is about to
\* read the next request, every request read so far has got exactly one
\* final response, and nothing is written for a request before the requests
\* read earlier have got theirs.
C27_OneFinalResponse ==
    /\ hc_pc = "recv" =>
          \A n \in 1..hc_read : Cardinality(FinalResponses(n)) = 1
    /\ \A i \in 1..Len(hc_sent) : \A j \in 1..i : hc_sent[j].req <= hc_sent[i].req

\* C28: start_game answers a member who is not the host "Only host can start
\* game" and the host of a room whose game process is still running "Game
\* already started", both without touching the rooms; the handler goes on to
\* its spawn only for the host of a room with no live process, and a room's
\* process becomes live only in that spawn, so no room owns two live game
\* processes.
C28_OneGamePerRoom ==
    [][ /\ \A c \in Conns :
              LET user_id == session[c].user_id
                  i == FindRoom(rooms, user_id)
              IN  /\ ( /\ last'.action = "start_game" /\ last'.conn = c
                       /\ pc[c] = "idle" /\ i # 0 )
                     => /\ rooms[i].host_id # user_id
                           => /\ last'.reply.error = "Only host can start game"
                              /\ rooms' = rooms
                        /\ ( /\ rooms[i].host_id = user_id
                             /\ rooms[i].status = "in_game"
                             /\ rooms[i].game_process = "running" )
                           => /\ last'.reply.error = "Game already started"
                              /\ rooms' = rooms
                  /\ (pc[c] # "start" /\ pc'[c] = "start")
                     => /\ rooms'[i].host_id = user_id
                        /\ rooms'[i].game_process = "none"
                        /\ lock' = c
                  /\ (pc[c] = "start" /\ pc'[c] # "start")
                     => /\ i # 0
                        /\ rooms[i].host_id = user_id
                        /\ rooms[i].game_process = "none"
                        /\ \A j \in 1..Len(rooms) : j # i => rooms'[j] = rooms[j]
        /\ \A j \in 1..Len(rooms') :
              rooms'[j].game_process = "running"
              => \/ \E k \in 1..Len(rooms) :
                       /\ rooms[k].room_id = rooms'[j].room_id
                       /\ rooms[k].game_process = "running"
                       /\ rooms[k].game_port = rooms'[j].game_port
                 \/ \E c \in Conns :
                       /\ pc[c] = "start" /\ pc'[c] = "idle"
                       /\ j = FindRoom(rooms, session[c].user_id)
      ]_vars

\* The host has just been told that the game has already started, its
\* process running.
C28_SecondStartRefused ==
    /\ last.action = "start_game"
    /\ last.reply.error = "Game already started"
    /\ \E i \in 1..Len(rooms) :
          /\ rooms[i].host_id = session[last.conn].user_id
          /\ rooms[i].game_process = "running"

\* The requests at which a game process that has exited is to be noticed.
LazyResetActions == {"leave_room", "check_game_status", "start_game", "end_game"}

\* C29: whenever leave_room by a member who leaves the room non-empty,
\* check_game_status, end_game or the host's start_game is answered for a
\* room that is in_game with its game process exited, the room is waiting
\* with no game process and no game port when the request is done.
C29_ExitedGameReset ==
    [][ \A c \in Conns :
          LET user_id == session[c].user_id
              i == FindRoom(rooms, user_id)
          IN  ( /\ pc[c] = "idle"
                /\ session[c].logged_in
                /\ i # 0
                /\ rooms[i].status = "in_game"
                /\ rooms[i].game_process = "exited"
                /\ \/ /\ last'.conn = c
                      /\ last'.action \in LazyResetActions
                      /\ last'.action = "start_game"
                            => rooms[i].host_id = user_id
                   \/ pc'[c] = "start" )
              => \A k \in 1..Len(rooms') :
                    rooms'[k].room_id = rooms[i].room_id
                    => /\ rooms'[k].status = "waiting"
                       /\ rooms'[k].game_process = "none"
                       /\ rooms'[k].game_port = None
      ]_vars

\* C30: a game log handle is open only while its room exists and is in_game:
\* a step that takes a room holding an open handle out of in_game, or that
\* destroys it, closes the handle; none is dropped open.
C30_LogClosedWithRoom ==
    [][ \A i \in 1..Len(rooms) :
          ( /\ rooms[i].game_log_file
            /\ \A k \in 1..Len(rooms') :
                  rooms'[k].room_id = rooms[i].room_id
                  => rooms'[k].status # "in_game" )
          => /\ leaked_logs' = leaked_logs
             /\ \A k \in 1..Len(rooms') :
                   rooms'[k].room_id = rooms[i].room_id
                   => ~rooms'[k].game_log_file
      ]_vars

\* C31: a room that is destroyed while it holds a game server has the server
\* terminated in the same step, so no game server runs without a room: every
\* running game server is the game_process of a room that is in_game, and of
\* no second room.
C31_NoOrphanProcess ==
    /\ orphans = 0
    /\ \A i \in 1..Len(rooms) :
          rooms[i].game_process = "running"
          => /\ rooms[i].status = "in_game"
             /\ \A j \in 1..Len(rooms) :
                   (j # i /\ rooms[j].game_process = "running")
                   => rooms[j].game_port # rooms[i].game_port

\* The last player of the last room has logged out after a game server was
\* started there: the room is gone, its log handle dropped.
C31_RoomWithGameDestroyed ==
    /\ last.action = "logout"
    /\ rooms = <<>>
    /\ next_game_port = PortLo + 1
    /\ leaked_logs = 1

\* The positions at which a handler is waiting for the Catalog's answer.
AtCatalogRequest == {"login", "create", "start"}

\* C32: no Lobby handler holds the Lobby mutex while it waits for the Catalog:
\* a connection that is at a Catalog request is not the holder of the lock.
C32_NoLockAcrossCatalog ==
    \A c \in Conns : pc[c] \in AtCatalogRequest => lock # c

\* The threads that hold, or act as holding, the mutex of coll.
InsideLock(coll) ==
    {w \in Workers : w_req[w].coll = coll
                     /\ w_pc[w] \in {"scan", "apply", "save", "unlock"}}

\* C33: operations on one collection never overlap: at most one thread is
\* between taking and releasing the collection's mutex, it is the holder,
\* and no find or find_one response shows an update applied to one of its
\* documents and not yet to another.
C33_ReaderSeesWhole ==
    /\ \A coll \in Colls :
          /\ Cardinality(InsideLock(coll)) <= 1
          /\ \A w \in InsideLock(coll) : locks[coll] = w
    /\ \A w \in Workers : ~w_reply[w].torn

\* C34: every user_id that has an entry in sessions or is in the players of
\* a room is the logged-in user of some open connection.
C34_NoGhostUser ==
    \A u \in Users :
        (u \in sessions \/ RoomsHolding(u) # {}) => ConnsAs(u) # {}

\* C35: a create_room or join_room request that is answered success = false
\* leaves the rooms as they were.
C35_FailedMoveKeepsRoom ==
    [][ ( /\ last'.action \in {"create_room", "join_room"}
          /\ ~last'.reply.success )
        => rooms' = rooms
      ]_vars

\* C36: the port allocator fails only when no port of the range can be
\* bound: an allocation that finds some port of the range free succeeds.
C36_FailsOnlyWhenFull ==
    [][ (last'.action = "allocate" /\ ~last'.reply.success)
        => \A p \in PortLo..(PortEnd - 1) : PortInUse(rooms, p)
      ]_vars

\* C37: no two rooms that are in_game at the same time have the same
\* game_port.
C37_InGamePortsDistinct ==
    \A i, j \in 1..Len(rooms) :
        ( /\ i # j
          /\ rooms[i].status = "in_game"
          /\ rooms[j].status = "in_game" )
        => rooms[i].game_port # rooms[j].game_port

\* C38: upload_game is all-or-nothing: when the conversation ends with
\* success = false after the move, the promoted directory of the upload
\* does not exist and no Game record of that name exists; when it ends with
\* success = true, the directory, the Game record and the Version record
\* all exist.
C38_UploadAllOrNothing ==
    [][ \A d \in DevConns :
          LET dir == FinalDir(dlocal[d].name, dlocal[d].version) IN
          /\ (dpc[d] = "up_moved" /\ dpc'[d] = "idle")
             => /\ ~files'[dir].exists
                /\ FindOne(db_game', LAMBDA g : g.name = dlocal[d].name) = 0
          /\ (dpc[d] = "up_game" /\ dpc'[d] = "idle")
             => /\ files'[dir].exists
                /\ FindOne(db_game', LAMBDA g : g.name = dlocal[d].name) # 0
                /\ FindOne(db_version', LAMBDA v : v.file_path = dir) # 0
      ]_vars

\* C39: once {file_count: K} is sent, the connection does not go back to
\* reading the next request before K {path, size} messages and K file
\* frames are sent, unless it is closed.
C39_AnnouncedFilesSent ==
    (dl_pc = "reading" /\ dl_announced /\ ~dl_broken)
    => (dl_infos = dl_files /\ dl_frames = dl_files)

\* C40: the mutex is held only by a thread that is inside start_game, never
\* by one that is about to request it, has returned, has raised or is gone;
\* and a mutex that is held is released.
C40_MutexReleased ==
    /\ [](\A c \in Conns : lock = c => pc[c] = "start")
    /\ ((lock # None) ~> (lock = None))

\* start_game has raised in the thread of a connection that is alone in its
\* room, and the mutex is free.
C40_RaisedAndReleased ==
    \E c \in Conns :
        /\ pc[c] = "error"
        /\ lock = None
        /\ session[c].logged_in
        /\ FindRoom(rooms, session[c].user_id) # 0
        /\ rooms[FindRoom(rooms, session[c].user_id)].players
              = <<session[c].user_id>>

====
